---- MODULE Spec2Model ----
(***************************************************************************)
(* FIRE-Balance (python implementation): the portfolio simulator, the      *)
(* liquidity-aware cash-flow strategy, the FIRE engine and the projection  *)
(* builder, as state machines over exact rational amounts.                 *)
(*                                                                         *)
(* Amounts: the code computes with decimal.Decimal (28 significant digits) *)
(* and float; the model computes with exact rationals <<n, d>> in lowest   *)
(* terms, so the rounding of those types is not represented.               *)
(***************************************************************************)
EXTENDS Integers, Sequences, FiniteSets, TLC

\* ------------------------------------------------------------------------
\* Decimal arithmetic (exact rationals <<numerator, denominator>>)
\* ------------------------------------------------------------------------

Abs(x) == IF x < 0 THEN -x ELSE x

RECURSIVE GCD(_, _)
GCD(a, b) == IF b = 0 THEN a ELSE GCD(b, a % b)

Rat(n, d) ==
    LET s == IF d < 0 THEN -1 ELSE 1
        g == GCD(Abs(n), Abs(d))
    IN  <<(s * n) \div g, (s * d) \div g>>

Dec(n) == <<n, 1>>

Zero == Dec(0)

RAdd(a, b) ==
    LET g == GCD(a[2], b[2])
    IN  Rat(a[1] * (b[2] \div g) + b[1] * (a[2] \div g), (a[2] \div g) * b[2])

RNeg(a) == <<-a[1], a[2]>>

RSub(a, b) == RAdd(a, RNeg(b))

RMul(a, b) ==
    LET g1 == GCD(Abs(a[1]), b[2])
        g2 == GCD(Abs(b[1]), a[2])
    IN  <<(a[1] \div g1) * (b[1] \div g2), (a[2] \div g2) * (b[2] \div g1)>>

\* a / b, for b # 0
RDiv(a, b) == RMul(a, Rat(b[2], b[1]))

RLt(a, b) ==
    LET g == GCD(a[2], b[2])
    IN  a[1] * (b[2] \div g) < b[1] * (a[2] \div g)

RLe(a, b) ==
    LET g == GCD(a[2], b[2])
    IN  a[1] * (b[2] \div g) <= b[1] * (a[2] \div g)

RMin(a, b) == IF RLe(a, b) THEN a ELSE b

RMax(a, b) == IF RLe(a, b) THEN b ELSE a

RAbs(a) == <<Abs(a[1]), a[2]>>

RECURSIVE RPow(_, _)
RPow(a, k) == IF k = 0 THEN Dec(1) ELSE RMul(a, RPow(a, k - 1))

\* sum(f[x] for x in S)
RECURSIVE RSumOver(_, _)
RSumOver(f, S) ==
    IF S = {} THEN Zero
    ELSE LET x == CHOOSE y \in S : TRUE
         IN  RAdd(f[x], RSumOver(f, S \ {x}))

\* dict.get(key, default)
Get(f, k, default) == IF k \in DOMAIN f THEN f[k] ELSE default

\* a dict built key by key (the same function, with every value computed once)
RECURSIVE DictOn(_, _)
DictOn(f, S) ==
    IF S = {} THEN <<>>
    ELSE LET x == CHOOSE y \in S : TRUE
         IN  (x :> f[x]) @@ DictOn(f, S \ {x})

Dict(f) == DictOn(f, DOMAIN f)

\* ------------------------------------------------------------------------
\* Data model (core/data_models.py)
\* ------------------------------------------------------------------------

LiquidityLevel == {"HIGH", "MEDIUM", "LOW"}

\* AssetClass: name is already normalized (lowercase); percentages and
\* expected returns are whole percents
AssetClass(name, pct, ret, liq) ==
    [name |-> name, allocation_percentage |-> pct,
     expected_return |-> ret, liquidity_level |-> liq]

PortfolioConfiguration(assets, rebal) ==
    [asset_classes |-> assets, enable_rebalancing |-> rebal]

\* Expected returns are whole percents; the portfolios below keep the names,
\* tiers and allocations of the code's default and of its tests, with returns
\* that order the assets the same way (0 < 100) and keep the amounts small.

\* the asset classes of PortfolioConfiguration's default
DefaultPortfolio ==
    PortfolioConfiguration(
        <<AssetClass("stocks", 30, 100, "MEDIUM"),
          AssetClass("bonds", 0, 100, "LOW"),
          AssetClass("savings", 60, 0, "LOW"),
          AssetClass("cash", 10, 0, "HIGH")>>, TRUE)

\* the single-asset portfolio of the engine's depletion tests
CashOnlyPortfolio ==
    PortfolioConfiguration(<<AssetClass("cash", 100, 0, "HIGH")>>, FALSE)

\* two assets of one declared tier, neither a name the strategy's fallback
\* mapping knows (test_handle_expense_return_optimization)
TwoStocksPortfolio ==
    PortfolioConfiguration(
        <<AssetClass("stock_a", 50, 100, "MEDIUM"),
          AssetClass("stock_b", 50, 0, "MEDIUM")>>, TRUE)

\* two assets of the LOW tier with different expected returns, beside cash
BondsSavingsPortfolio ==
    PortfolioConfiguration(
        <<AssetClass("bonds", 25, 100, "LOW"),
          AssetClass("savings", 25, 0, "LOW"),
          AssetClass("cash", 50, 0, "HIGH")>>, TRUE)

\* two HIGH-liquidity assets, one of them not named "cash"
TwoHighPortfolio ==
    PortfolioConfiguration(
        <<AssetClass("cash", 50, 0, "HIGH"),
          AssetClass("money market", 50, 0, "HIGH")>>, FALSE)

\* an asset whose expected annual return is a loss of more than its value
LossPortfolio ==
    PortfolioConfiguration(<<AssetClass("stocks", 100, -200, "MEDIUM")>>, FALSE)

Portfolios ==
    {DefaultPortfolio, CashOnlyPortfolio, TwoStocksPortfolio,
     BondsSavingsPortfolio, TwoHighPortfolio, LossPortfolio}

AssetNames(config) == {config.asset_classes[i].name : i \in DOMAIN config.asset_classes}

\* ------------------------------------------------------------------------
\* PortfolioState (core/portfolio_manager.py)
\* ------------------------------------------------------------------------

\* PortfolioState.total_value
total_value(asset_values) == RSumOver(asset_values, DOMAIN asset_values)

\* PortfolioState.get_allocation: each value over the total; all zero when
\* the total is zero.  (The renormalisation branch repairs float error only.)
get_allocation(asset_values) ==
    LET total == total_value(asset_values)
    IN  IF total = Zero
        THEN Dict([name \in DOMAIN asset_values |-> Zero])
        ELSE Dict([name \in DOMAIN asset_values |-> RDiv(asset_values[name], total)])

\* ------------------------------------------------------------------------
\* PortfolioCalculator
\* ------------------------------------------------------------------------

get_target_allocation(config) ==
    Dict([name \in AssetNames(config) |->
        LET i == CHOOSE j \in DOMAIN config.asset_classes :
                     config.asset_classes[j].name = name
        IN  Rat(config.asset_classes[i].allocation_percentage, 100)])

RECURSIVE WeightedReturn(_, _, _)
WeightedReturn(assets, allocation, i) ==
    IF i > Len(assets) THEN Zero
    ELSE RAdd(RMul(Rat(assets[i].expected_return, 100),
                   Get(allocation, assets[i].name, Zero)),
              WeightedReturn(assets, allocation, i + 1))

calculate_returns_by_allocation(config, allocation, portfolio_value) ==
    IF RLe(portfolio_value, Zero) THEN Zero
    ELSE RMul(portfolio_value, WeightedReturn(config.asset_classes, allocation, 1))

RebalanceThreshold == Rat(5, 100)

should_rebalance(config, current_allocation, target_allocation) ==
    /\ config.enable_rebalancing
    /\ \E name \in DOMAIN target_allocation :
          RLt(RebalanceThreshold,
              RAbs(RSub(Get(current_allocation, name, Zero), target_allocation[name])))

calculate_rebalancing_trades(config, asset_values, target_allocation) ==
    IF RLe(total_value(asset_values), Zero)
    THEN Dict([name \in AssetNames(config) |-> Zero])
    ELSE LET total == total_value(asset_values)
         IN  Dict([name \in AssetNames(config) |->
                RSub(RMul(total, Get(target_allocation, name, Zero)),
                     Get(asset_values, name, Zero))])

\* ------------------------------------------------------------------------
\* LiquidityAwareFlowStrategy
\* A strategy is [cash_buffer_months, portfolio_config]; portfolio_config is
\* <<>> for None and <<config>> otherwise.
\* ------------------------------------------------------------------------

CashBufferMonths == 3

LiquidityAwareFlowStrategy(portfolio_config) ==
    [cash_buffer_months |-> CashBufferMonths, portfolio_config |-> portfolio_config]

\* the fallback tier mapping used when the strategy has no configuration
tier_mapping(tier) ==
    CASE tier = "HIGH" -> {"cash"}
      [] tier = "MEDIUM" -> {"stocks"}
      [] tier = "LOW" -> {"bonds", "savings"}
      [] OTHER -> {}

\* _get_assets_by_liquidity_tier: the names of the portfolio's assets of the
\* tier that hold a positive value
get_assets_by_liquidity_tier(strategy, tier, asset_values) ==
    LET tier_asset_names ==
            IF strategy.portfolio_config = <<>>
            THEN tier_mapping(tier)
            ELSE LET assets == strategy.portfolio_config[1].asset_classes
                 IN  {assets[i].name : i \in {j \in DOMAIN assets :
                                                assets[j].liquidity_level = tier}}
    IN  {name \in DOMAIN asset_values :
            name \in tier_asset_names /\ RLt(Zero, asset_values[name])}

\* list.sort(key=expected_return): stable, ascending
RECURSIVE SortByReturn(_, _)
SortByReturn(assets, idx) ==
    IF idx = {} THEN <<>>
    ELSE LET first == CHOOSE i \in idx : \A j \in idx :
                         \/ assets[i].expected_return < assets[j].expected_return
                         \/ /\ assets[i].expected_return = assets[j].expected_return
                            /\ i <= j
         IN  <<assets[first]>> \o SortByReturn(assets, idx \ {first})

\* the loop of _withdraw_by_return_optimization over the sorted assets
RECURSIVE WithdrawLoop(_, _, _, _, _)
WithdrawLoop(sorted, i, asset_values, remaining_withdrawal, withdrawal) ==
    IF i > Len(sorted) \/ RLe(remaining_withdrawal, Zero) THEN withdrawal
    ELSE LET asset_name == sorted[i].name
             asset_withdrawal == RMin(remaining_withdrawal, asset_values[asset_name])
         IN  WithdrawLoop(sorted, i + 1, asset_values,
                          RSub(remaining_withdrawal, asset_withdrawal),
                          [withdrawal EXCEPT ![asset_name] = RNeg(asset_withdrawal)])

withdraw_by_return_optimization(strategy, tier_assets, asset_values, amount, withdrawal) ==
    LET assets == strategy.portfolio_config[1].asset_classes
        sorted == SortByReturn(assets, {i \in DOMAIN assets :
                                           assets[i].name \in tier_assets})
    IN  WithdrawLoop(sorted, 1, asset_values, amount, withdrawal)

withdraw_proportionally(tier_assets, asset_values, withdrawal_amount, withdrawal) ==
    LET total_tier_value == RSumOver(asset_values, tier_assets)
    IN  Dict([name \in DOMAIN withdrawal |->
            IF name \in tier_assets
            THEN RNeg(RMul(withdrawal_amount,
                           RDiv(asset_values[name], total_tier_value)))
            ELSE withdrawal[name]])

\* _withdraw_from_liquidity_tier, once the assets of the tier are known:
\* [used, withdrawal]
withdraw_from_tier_assets(strategy, tier_assets, needed_amount, asset_values, withdrawal) ==
    LET total_tier_value == RSumOver(asset_values, tier_assets)
        actual_withdrawal == RMin(needed_amount, total_tier_value)
    IN  IF tier_assets = {} \/ total_tier_value = Zero \/ actual_withdrawal = Zero
        THEN [used |-> Zero, withdrawal |-> withdrawal]
        ELSE [used |-> actual_withdrawal,
              withdrawal |->
                 IF strategy.portfolio_config # <<>>
                 THEN withdraw_by_return_optimization(strategy, tier_assets,
                          asset_values, actual_withdrawal, withdrawal)
                 ELSE withdraw_proportionally(tier_assets, asset_values,
                          actual_withdrawal, withdrawal)]

\* _withdraw_from_liquidity_tier: [used, withdrawal]
withdraw_from_liquidity_tier(strategy, tier, needed_amount, asset_values, withdrawal) ==
    withdraw_from_tier_assets(strategy,
        get_assets_by_liquidity_tier(strategy, tier, asset_values),
        needed_amount, asset_values, withdrawal)

\* remaining_expense -= used, with the withdrawal so far
after_tier(remaining_expense, tier_result) ==
    [remaining_expense |-> RSub(remaining_expense, tier_result.used),
     withdrawal |-> tier_result.withdrawal]

\* one tier of handle_expense: st is [remaining_expense, withdrawal]
withdraw_tier(strategy, tier, asset_values, st) ==
    after_tier(st.remaining_expense,
               withdraw_from_liquidity_tier(strategy, tier, st.remaining_expense,
                                            asset_values, st.withdrawal))

\* if remaining_expense > 0: one more tier
withdraw_tier_if_remaining(strategy, tier, asset_values, st) ==
    IF RLt(Zero, st.remaining_expense)
    THEN withdraw_tier(strategy, tier, asset_values, st)
    ELSE st

\* a handle_expense that draws on the MEDIUM tier before the HIGH tier
handle_expense_medium_first(strategy, expense, asset_values) ==
    withdraw_tier_if_remaining(strategy, "LOW", asset_values,
        withdraw_tier_if_remaining(strategy, "HIGH", asset_values,
            withdraw_tier(strategy, "MEDIUM", asset_values,
                [remaining_expense |-> expense,
                 withdrawal |-> Dict([name \in DOMAIN asset_values |-> Zero])]))
    ).withdrawal

\* handle_expense: the withdrawal of each asset (negative amounts), taken
\* from the HIGH tier, then MEDIUM, then LOW
handle_expense(strategy, expense, asset_values) ==
    withdraw_tier_if_remaining(strategy, "LOW", asset_values,
        withdraw_tier_if_remaining(strategy, "MEDIUM", asset_values,
            withdraw_tier(strategy, "HIGH", asset_values,
                [remaining_expense |-> expense,
                 withdrawal |-> Dict([name \in DOMAIN asset_values |-> Zero])]))
    ).withdrawal

\* dict item assignment d[k] = v, adding the key when it is new
SetItem(f, k, v) == Dict([x \in DOMAIN f \cup {k} |-> IF x = k THEN v ELSE f[x]])

\* _ensure_liquidity_buffer: [used, allocation]
ensure_liquidity_buffer(strategy, income, asset_values, annual_expenses, allocation) ==
    LET required_buffer == RMul(annual_expenses, Rat(strategy.cash_buffer_months, 12))
        current_high_liquidity == Get(asset_values, "cash", Zero)
        buffer_shortfall == RMax(Zero, RSub(required_buffer, current_high_liquidity))
        buffer_allocation == RMin(income, buffer_shortfall)
    IN  IF RLt(Zero, buffer_shortfall)
        THEN [used |-> buffer_allocation,
              allocation |-> SetItem(allocation, "cash", buffer_allocation)]
        ELSE [used |-> Zero, allocation |-> allocation]

\* _allocate_proportionally: every target whose key is not "Cash"
allocate_proportionally(remaining_income, target_allocation, allocation) ==
    LET investment_targets == {k \in DOMAIN target_allocation : k # "Cash"}
        total_investment_ratio == RSumOver(target_allocation, investment_targets)
    IN  IF RLt(Zero, total_investment_ratio)
        THEN Dict([name \in DOMAIN allocation |->
                IF name \in investment_targets
                THEN RAdd(allocation[name],
                          RMul(remaining_income,
                               RDiv(target_allocation[name], total_investment_ratio)))
                ELSE allocation[name]])
        ELSE allocation

\* _allocate_by_return_optimization
allocate_by_return_optimization(strategy, remaining_income, target_allocation, allocation) ==
    IF strategy.portfolio_config = <<>>
    THEN allocate_proportionally(remaining_income, target_allocation, allocation)
    ELSE LET assets == strategy.portfolio_config[1].asset_classes
             investment_assets ==
                 {assets[i].name : i \in {j \in DOMAIN assets :
                     /\ assets[j].liquidity_level # "HIGH"
                     /\ RLt(Zero, Get(target_allocation, assets[j].name, Zero))}}
             total_investment_ratio == RSumOver(target_allocation, investment_assets)
         IN  IF RLt(Zero, total_investment_ratio)
             THEN Dict([name \in DOMAIN allocation |->
                     IF name \in investment_assets
                     THEN RAdd(allocation[name],
                               RMul(remaining_income,
                                    RDiv(target_allocation[name],
                                         total_investment_ratio)))
                     ELSE allocation[name]])
             ELSE allocation

\* step 2 of handle_income: invest what the buffer left over
invest_remaining(strategy, income, target_allocation, buffer) ==
    IF RLt(Zero, RSub(income, buffer.used))
    THEN allocate_by_return_optimization(strategy, RSub(income, buffer.used),
                                         target_allocation, buffer.allocation)
    ELSE buffer.allocation

\* handle_income: the deposit of each asset
handle_income(strategy, income, asset_values, annual_expenses, target_allocation) ==
    invest_remaining(strategy, income, target_allocation,
        ensure_liquidity_buffer(strategy, income, asset_values, annual_expenses,
            Dict([name \in DOMAIN target_allocation |-> Zero])))

\* ------------------------------------------------------------------------
\* PortfolioSimulator
\* ------------------------------------------------------------------------

\* the starting PortfolioState: the profile's net worth split over the asset
\* classes by their allocation percentages
create_initial_portfolio(profile) ==
    LET target == get_target_allocation(profile.portfolio)
    IN  Dict([name \in DOMAIN target |->
                RMul(Dec(profile.current_net_worth), target[name])])

\* reset_to_initial: the starting state again
reset_to_initial(profile) == create_initial_portfolio(profile)

\* _apply_returns
apply_returns(asset_values, total_returns, allocation) ==
    Dict([name \in DOMAIN asset_values |->
        RAdd(asset_values[name], RMul(total_returns, Get(allocation, name, Zero)))])

\* _apply_cash_flows: add each flow (a new key becomes a new asset), then
\* floor every asset at zero
apply_cash_flows(asset_values, cash_flows) ==
    Dict([name \in DOMAIN asset_values \cup DOMAIN cash_flows |->
        RMax(Zero, IF name \in DOMAIN asset_values
                   THEN RAdd(asset_values[name], Get(cash_flows, name, Zero))
                   ELSE cash_flows[name])])

\* _execute_trades
execute_trades(asset_values, trades) ==
    Dict([name \in DOMAIN asset_values \cup DOMAIN trades |->
        IF name \in DOMAIN asset_values
        THEN RAdd(asset_values[name], Get(trades, name, Zero))
        ELSE RMax(Zero, trades[name])])

\* _maybe_rebalance: [rebalanced, asset_values]
maybe_rebalance(config, asset_values) ==
    IF should_rebalance(config, get_allocation(asset_values),
                        get_target_allocation(config))
    THEN [rebalanced |-> TRUE,
          asset_values |-> execute_trades(asset_values,
              calculate_rebalancing_trades(config, asset_values,
                                           get_target_allocation(config)))]
    ELSE [rebalanced |-> FALSE, asset_values |-> asset_values]

\* simulate_year, step by step; y is the record of the year so far
year_start(asset_values, net_cash_flow, annual_expenses) ==
    [net_cash_flow |-> net_cash_flow,
     annual_expenses |-> annual_expenses,
     starting_asset_values |-> asset_values,
     starting_portfolio_value |-> total_value(asset_values),
     starting_allocation |-> get_allocation(asset_values)]

\* Step 1: investment returns on the starting allocation
year_returns(config, y) ==
    [investment_returns |->
        calculate_returns_by_allocation(config, y.starting_allocation,
                                        y.starting_portfolio_value)] @@ y

\* Step 2: the returns are applied
year_apply_returns(y) ==
    [after_returns |-> apply_returns(y.starting_asset_values, y.investment_returns,
                                     y.starting_allocation)] @@ y

\* Step 3: cash flows, only when the net cash flow is not zero
year_cash_flows(config, strategy, y) ==
    [cash_flows_allocated |->
        IF y.net_cash_flow = Zero THEN <<>>
        ELSE IF RLt(Zero, y.net_cash_flow)
        THEN handle_income(strategy, y.net_cash_flow, y.after_returns,
                           y.annual_expenses, get_target_allocation(config))
        ELSE handle_expense(strategy, RAbs(y.net_cash_flow), y.after_returns)] @@ y

year_apply_cash_flows(y) ==
    [after_cash_flows |->
        IF y.net_cash_flow = Zero THEN y.after_returns
        ELSE apply_cash_flows(y.after_returns, y.cash_flows_allocated)] @@ y

\* Step 4: rebalancing, and the result of the year
year_result(y, rebalance) ==
    [rebalanced |-> rebalance.rebalanced,
     asset_values |-> rebalance.asset_values,
     ending_portfolio_value |-> total_value(rebalance.asset_values)] @@ y

year_rebalance(config, y) == year_result(y, maybe_rebalance(config, y.after_cash_flows))

\* simulate_year: the portfolio after each of its steps
simulate_year(config, strategy, asset_values, net_cash_flow, annual_expenses) ==
    year_rebalance(config,
        year_apply_cash_flows(
            year_cash_flows(config, strategy,
                year_apply_returns(
                    year_returns(config,
                        year_start(asset_values, net_cash_flow, annual_expenses))))))

\* ------------------------------------------------------------------------
\* FIREEngine (core/engine.py)
\* ------------------------------------------------------------------------

MaxRows == 2
MaxRuns == 2

\* Amounts are in units of 100: a net worth of 5 is the 500 of the tests.
NetWorths == {0, 5}
SafetyBufferMonths == {0, 12}
CurrentAge == 60

\* one row of the annual summary: expenses only, no cash flow at all, a
\* surplus, and a deficit smaller than the portfolio
Rows ==
    {[total_income |-> 0, total_expense |-> 6],
     [total_income |-> 0, total_expense |-> 0],
     [total_income |-> 12, total_expense |-> 6],
     [total_income |-> 4, total_expense |-> 6]}

Projections == UNION {[1..n -> Rows] : n \in 1..MaxRows}

UserProfiles ==
    [current_net_worth : NetWorths, safety_buffer_months : SafetyBufferMonths,
     portfolio : Portfolios]

VARIABLES
    profile,            \* FIREEngine.profile
    projection_df,      \* FIREEngine.projection_df (annual summary)
    current_portfolio,  \* PortfolioSimulator.current_portfolio.asset_values
    pc,                 \* "idle", or "running" inside _calculate_yearly_states
    op,                 \* the public method that is running
    row,                \* the next row of projection_df
    cumulative_debt,    \* local of _calculate_yearly_states
    yearly_states,      \* local of _calculate_yearly_states
    last_year,          \* <<>> or <<the last simulate_year's steps>>
    returned,           \* the lists of yearly states returned so far
    strategy,           \* a LiquidityAwareFlowStrategy called on its own
    portfolio,          \* the PortfolioState.asset_values handed to it
    calculator,         \* PortfolioCalculator.portfolio_config beside it
    call,               \* <<>> or <<the strategy's last call and its result>>
    planner_profile,    \* FIREPlanner.data.user_profile
    planner_item,       \* one item of FIREPlanner.data.income/expense_items
    projection,         \* <<>> or <<the item's column of the projection>>
    data,               \* FIREPlanner.data (PlannerData)
    outcome,            \* <<>> or <<the planner's last call and how it ended>>
    config_file,        \* <<>> or <<the JSON file export_config_to_file wrote>>
    exported,           \* <<>> or <<the exporting planner's data at the export>>
    modified_df,        \* local of _apply_black_swan_events
    active_events,      \* local of _apply_black_swan_events
    triggered_event_ids,\* local of _apply_black_swan_events
    year_idx,           \* local of _apply_black_swan_events
    applied,            \* the apply_impact calls made so far, in order
    simulated,          \* what _simulate_black_swan_events returned, by row
    random_state,       \* the state of the global random generators
    simulators,         \* the MonteCarloSimulator objects (their seed)
    mc_results,         \* the MonteCarloResults returned so far
    in_flight,          \* the scenarios of a run whose steps are scheduled freely
    engine_input,       \* the EngineInput a FIREAdvisor was made with
    advisor_call,       \* <<>> or <<the advisor's last call and what it did>>
    plan,               \* a profile and a projection, calculated with several buffers
    achievable_by_buffer \* is_fire_achievable of the plan, by safety_buffer_months

engine_vars == <<profile, projection_df, current_portfolio, pc, op, row,
                 cumulative_debt, yearly_states, last_year, returned>>

strategy_vars == <<strategy, portfolio, calculator, call>>

planner_vars == <<planner_profile, planner_item, projection>>

session_vars == <<data, outcome, config_file, exported>>

black_swan_vars == <<modified_df, active_events, triggered_event_ids, year_idx,
                     applied, simulated>>

monte_carlo_vars == <<random_state, simulators, mc_results, in_flight>>

advisor_vars == <<engine_input, advisor_call>>

buffer_vars == <<plan, achievable_by_buffer>>

vars == <<engine_vars, strategy_vars, planner_vars, session_vars,
          black_swan_vars, monte_carlo_vars, advisor_vars, buffer_vars>>

\* no engine, no strategy of its own, no planner
NoEngine ==
    /\ profile = <<>>
    /\ projection_df = <<>>
    /\ current_portfolio = <<>>
    /\ pc = "none"
    /\ op = "none"
    /\ row = 1
    /\ cumulative_debt = Zero
    /\ yearly_states = <<>>
    /\ last_year = <<>>
    /\ returned = <<>>

NoStrategy == strategy = <<>> /\ portfolio = <<>> /\ calculator = <<>> /\ call = <<>>

NoPlanner == planner_profile = <<>> /\ planner_item = <<>> /\ projection = <<>>

NoSession == data = <<>> /\ outcome = <<>> /\ config_file = <<>> /\ exported = <<>>

NoBlackSwan ==
    /\ modified_df = <<>>
    /\ active_events = <<>>
    /\ triggered_event_ids = <<>>
    /\ year_idx = 0
    /\ applied = <<>>
    /\ simulated = <<>>

NoBuffers == plan = <<>> /\ achievable_by_buffer = <<>>

NoAdvisor == engine_input = <<>> /\ advisor_call = <<>>

NoMonteCarlo ==
    random_state = 0 /\ simulators = <<>> /\ mc_results = <<>> /\ in_flight = <<>>

\* FIREEngine.__init__: the strategy is built without a portfolio_config
EngineStrategy == LiquidityAwareFlowStrategy(<<>>)

\* the YearlyState of calculate_single_year, from the simulator's result
yearly_state(prof, age, total_income, total_expense, portfolio_result) ==
    [age |-> age,
     total_income |-> Dec(total_income),
     total_expense |-> Dec(total_expense),
     net_cash_flow |-> RSub(Dec(total_income), Dec(total_expense)),
     portfolio_value |-> portfolio_result.ending_portfolio_value,
     net_worth |-> portfolio_result.ending_portfolio_value,
     is_sustainable |->
         RLe(RMul(Dec(total_expense), Rat(prof.safety_buffer_months, 12)),
             portfolio_result.ending_portfolio_value)]

\* state and simulator's year together
single_year(prof, age, total_income, total_expense, portfolio_result) ==
    [state |-> yearly_state(prof, age, total_income, total_expense, portfolio_result),
     year |-> portfolio_result]

\* calculate_single_year: the YearlyState and the simulator's year
calculate_single_year(prof, asset_values, age, total_income, total_expense) ==
    single_year(prof, age, total_income, total_expense,
        simulate_year(prof.portfolio, EngineStrategy, asset_values,
                      RSub(Dec(total_income), Dec(total_expense)),
                      Dec(total_expense)))

\* the net-worth adjustment of _calculate_yearly_states: [net_worth, debt]
debt_adjustment(state, debt) ==
    IF RLt(Zero, state.portfolio_value)
    THEN [net_worth |-> state.portfolio_value, cumulative_debt |-> Zero]
    ELSE LET d == RAdd(debt, IF RLt(state.net_cash_flow, Zero)
                             THEN RAbs(state.net_cash_flow) ELSE Zero)
         IN  [net_worth |-> RNeg(d), cumulative_debt |-> d]

\* a run that goes on from the portfolio the run before it left
run_start_no_reset(prof, asset_values) == asset_values

\* the call that starts a run of _calculate_yearly_states
run_start(prof, asset_values) == reset_to_initial(prof)

Init ==
    /\ profile \in UserProfiles
    /\ projection_df \in Projections
    /\ current_portfolio = create_initial_portfolio(profile)
    /\ pc = "idle"
    /\ op = "none"
    /\ row = 1
    /\ cumulative_debt = Zero
    /\ yearly_states = <<>>
    /\ last_year = <<>>
    /\ returned = <<>>
    /\ NoStrategy
    /\ NoPlanner
    /\ NoSession
    /\ NoBlackSwan
    /\ NoMonteCarlo /\ NoAdvisor /\ NoBuffers

\* calculate() or get_yearly_states() is called: _calculate_yearly_states
\* clears its locals and resets the simulator
Calculate(method) ==
    /\ pc = "idle"
    /\ Len(returned) < MaxRuns
    /\ pc' = "running"
    /\ op' = method
    /\ row' = 1
    /\ cumulative_debt' = Zero
    /\ yearly_states' = <<>>
    /\ current_portfolio' = run_start(profile, current_portfolio)
    /\ UNCHANGED <<profile, projection_df, last_year, returned>>
    /\ UNCHANGED <<strategy_vars, planner_vars,
                   session_vars, black_swan_vars, monte_carlo_vars, advisor_vars, buffer_vars>>

\* one iteration of the loop over the rows
CalculateYear ==
    /\ pc = "running"
    /\ row <= Len(projection_df)
    /\ \E single \in {calculate_single_year(profile, current_portfolio,
                          CurrentAge + row - 1,
                          projection_df[row].total_income,
                          projection_df[row].total_expense)} :
       \E adj \in {debt_adjustment(single.state, cumulative_debt)} :
           /\ yearly_states' =
                 Append(yearly_states, [single.state EXCEPT !.net_worth = adj.net_worth])
           /\ cumulative_debt' = adj.cumulative_debt
           /\ current_portfolio' = single.year.asset_values
           /\ last_year' = <<single.year>>
    /\ row' = row + 1
    /\ UNCHANGED <<profile, projection_df, pc, op, returned>>
    /\ UNCHANGED <<strategy_vars, planner_vars,
                   session_vars, black_swan_vars, monte_carlo_vars, advisor_vars, buffer_vars>>

\* the loop is over: the list of yearly states is returned
Return ==
    /\ pc = "running"
    /\ row > Len(projection_df)
    /\ returned' = Append(returned, yearly_states)
    /\ pc' = "idle"
    /\ UNCHANGED <<profile, projection_df, current_portfolio, op, row,
                   cumulative_debt, yearly_states, last_year>>
    /\ UNCHANGED <<strategy_vars, planner_vars,
                   session_vars, black_swan_vars, monte_carlo_vars, advisor_vars, buffer_vars>>

Next ==
    \/ \E method \in {"calculate", "get_yearly_states"} : Calculate(method)
    \/ CalculateYear
    \/ Return

Spec == Init /\ [][Next]_vars

\* ------------------------------------------------------------------------
\* Properties of the engine and of the simulator it drives
\* ------------------------------------------------------------------------

\* the year simulate_year has just simulated, and the state the engine
\* appended for it
YearDone == pc = "running" /\ yearly_states # <<>> /\ last_year # <<>>

LastState == yearly_states[Len(yearly_states)]

LastYear == last_year[1]

\* no debt was carried into the last year: it is the run's first year, or the
\* year before it ended with a net worth that is not negative
NoDebtBefore ==
    \/ Len(yearly_states) = 1
    \/ RLe(Zero, yearly_states[Len(yearly_states) - 1].net_worth)

\* the last year's expense exceeded what the portfolio held after returns,
\* and the portfolio ended at zero
Depleted ==
    /\ RLt(LastState.net_cash_flow, Zero)
    /\ RLe(Zero, total_value(LastYear.after_returns))
    /\ RLt(total_value(LastYear.after_returns), RAbs(LastState.net_cash_flow))
    /\ LastState.portfolio_value = Zero

\* C1: in a year whose negative net cash flow exceeds what the portfolio can
\* pay and that ends with the portfolio at zero (no debt carried in), the
\* reported net_worth is minus the part of the shortfall that the portfolio
\* could not pay: -(|net_cash_flow| - portfolio value before the withdrawal).
C1_NetWorthIsUnfundedShortfall ==
    (YearDone /\ NoDebtBefore /\ Depleted) =>
        LastState.net_worth =
            RNeg(RSub(RAbs(LastState.net_cash_flow),
                      total_value(LastYear.after_returns)))

\* C2: every returned YearlyState is sustainable exactly when its reported
\* net_worth is at least total_expense * safety_buffer_months / 12.
C2_SustainableIffNetWorthCoversBuffer ==
    \A i \in DOMAIN returned : \A j \in DOMAIN returned[i] :
        LET s == returned[i][j]
        IN  s.is_sustainable <=>
                RLe(RMul(s.total_expense, Rat(profile.safety_buffer_months, 12)),
                    s.net_worth)

\* what handle_expense withdrew in the last year, in total
Withdrawn ==
    RNeg(RSumOver(LastYear.cash_flows_allocated,
                  DOMAIN LastYear.cash_flows_allocated))

\* the last year was an expense year on a portfolio without negative assets
ExpenseYear ==
    /\ last_year # <<>>
    /\ RLt(LastYear.net_cash_flow, Zero)
    /\ \A name \in DOMAIN LastYear.after_returns :
           RLe(Zero, LastYear.after_returns[name])

\* C4: the withdrawals simulate_year gets from handle_expense sum to
\* min(expense, total portfolio value).
C4_WithdrawsMinOfExpenseAndTotal ==
    ExpenseYear =>
        Withdrawn = RMin(RAbs(LastYear.net_cash_flow),
                         total_value(LastYear.after_returns))

\* the asset class of a name in the profile's configuration
AssetOf(config, name) ==
    config.asset_classes[CHOOSE i \in DOMAIN config.asset_classes :
                             config.asset_classes[i].name = name]

\* C6: in a withdrawal made for simulate_year, an asset is drawn on only when
\* every asset of its liquidity tier with a lower expected return has been
\* withdrawn in full.
C6_LowestReturnFirstWithinTier ==
    ExpenseYear =>
        \A a, b \in AssetNames(profile.portfolio) :
            LET ca == AssetOf(profile.portfolio, a)
                cb == AssetOf(profile.portfolio, b)
            IN  (/\ ca.liquidity_level = cb.liquidity_level
                 /\ ca.expected_return < cb.expected_return
                 /\ Get(LastYear.cash_flows_allocated, b, Zero) # Zero)
                => Get(LastYear.cash_flows_allocated, a, Zero)
                       = RNeg(LastYear.after_returns[a])

\* C8: after every simulate_year no asset value is negative.
C8_AssetValuesNonNegative ==
    last_year # <<>> =>
        \A name \in DOMAIN LastYear.asset_values :
            RLe(Zero, LastYear.asset_values[name])

\* C9: a rebalance leaves the total portfolio value as it was.
C9_RebalanceIsFree ==
    (last_year # <<>> /\ LastYear.rebalanced) =>
        total_value(LastYear.asset_values) = total_value(LastYear.after_cash_flows)

\* C10: every run on one engine returns the same yearly states.
C10_RunsReturnSameStates ==
    \A i, j \in DOMAIN returned : returned[i] = returned[j]

\* two runs have returned, and the first left the simulator's portfolio
\* different from the initial one
C10_Witness ==
    /\ Len(returned) >= 2
    /\ current_portfolio # create_initial_portfolio(profile)
    /\ returned[1] # <<>>

\* ------------------------------------------------------------------------
\* LiquidityAwareFlowStrategy called on its own: handle_expense and
\* handle_income on a portfolio, with and without a portfolio_config
\* ------------------------------------------------------------------------

\* asset values, expenses, incomes and annual expenses of the calls
AssetValues == {Dec(0), Dec(1), Dec(3)}

Expenses == {Dec(1), Dec(4), Dec(8)}

Incomes == {Dec(1), Dec(6)}

AnnualExpenses == {Dec(0), Dec(12)}

StrategyInit ==
    /\ calculator \in Portfolios
    /\ strategy \in {LiquidityAwareFlowStrategy(<<>>),
                     LiquidityAwareFlowStrategy(<<calculator>>)}
    /\ portfolio \in [AssetNames(calculator) -> AssetValues]
    /\ call = <<>>
    /\ NoEngine
    /\ NoPlanner
    /\ NoSession
    /\ NoBlackSwan
    /\ NoMonteCarlo /\ NoAdvisor /\ NoBuffers

HandleExpense(expense) ==
    /\ call' = <<[method |-> "handle_expense",
                  amount |-> expense,
                  annual_expenses |-> Zero,
                  result |-> handle_expense(strategy, expense, portfolio)]>>
    /\ UNCHANGED <<strategy, portfolio, calculator>>
    /\ UNCHANGED <<engine_vars, planner_vars,
                   session_vars, black_swan_vars, monte_carlo_vars, advisor_vars, buffer_vars>>

HandleIncome(income, annual_expenses) ==
    /\ call' = <<[method |-> "handle_income",
                  amount |-> income,
                  annual_expenses |-> annual_expenses,
                  result |-> handle_income(strategy, income, portfolio,
                                annual_expenses, get_target_allocation(calculator))]>>
    /\ UNCHANGED <<strategy, portfolio, calculator>>
    /\ UNCHANGED <<engine_vars, planner_vars,
                   session_vars, black_swan_vars, monte_carlo_vars, advisor_vars, buffer_vars>>

StrategyNext ==
    \/ \E expense \in Expenses : HandleExpense(expense)
    \/ \E income \in Incomes : \E annual_expenses \in AnnualExpenses :
           HandleIncome(income, annual_expenses)

SpecStrategy == StrategyInit /\ [][StrategyNext]_vars

\* the names the strategy takes for a tier: those its configuration declares,
\* or its fallback mapping
TierNames(tier) ==
    IF strategy.portfolio_config = <<>>
    THEN tier_mapping(tier)
    ELSE LET assets == strategy.portfolio_config[1].asset_classes
         IN  {assets[i].name :
                 i \in {j \in DOMAIN assets : assets[j].liquidity_level = tier}}

\* what the portfolio holds in a tier
TierTotal(tier) == RSumOver(portfolio, TierNames(tier) \cap DOMAIN portfolio)

\* what the last call took from a tier
TierPaid(tier) ==
    RNeg(RSumOver(call[1].result, TierNames(tier) \cap DOMAIN call[1].result))

TierDrawn(tier) ==
    \E name \in TierNames(tier) \cap DOMAIN call[1].result :
        call[1].result[name] # Zero

ExpenseCall == call # <<>> /\ call[1].method = "handle_expense"

IncomeCall == call # <<>> /\ call[1].method = "handle_income"

\* C5: handle_expense takes min(expense, HIGH total) from the HIGH tier, draws
\* on a MEDIUM asset only if the HIGH total was smaller than the expense, and
\* on a LOW asset only if the HIGH and MEDIUM totals together were smaller.
C5_LiquidityOrder ==
    ExpenseCall =>
        /\ TierPaid("HIGH") = RMin(call[1].amount, TierTotal("HIGH"))
        /\ TierDrawn("MEDIUM") => RLt(TierTotal("HIGH"), call[1].amount)
        /\ TierDrawn("LOW") =>
               RLt(RAdd(TierTotal("HIGH"), TierTotal("MEDIUM")), call[1].amount)

\* an expense larger than the HIGH and MEDIUM tiers, paid from all three
C5_Witness ==
    /\ ExpenseCall
    /\ strategy.portfolio_config # <<>>
    /\ TierPaid("HIGH") # Zero
    /\ TierDrawn("MEDIUM")
    /\ TierDrawn("LOW")

\* the first HIGH-liquidity asset of the portfolio, <<>> when there is none
FirstHigh ==
    IF strategy.portfolio_config = <<>>
    THEN IF "cash" \in DOMAIN portfolio THEN <<"cash">> ELSE <<>>
    ELSE LET assets == strategy.portfolio_config[1].asset_classes
             high == {i \in DOMAIN assets : assets[i].liquidity_level = "HIGH"}
         IN  IF high = {} THEN <<>>
             ELSE <<assets[CHOOSE i \in high : \A j \in high : i <= j].name>>

\* C7: handle_income deposits exactly min(income, shortfall) into the first
\* HIGH-liquidity asset, where shortfall = max(0, annual_expenses *
\* cash_buffer_months / 12 - total value of the HIGH-liquidity assets); the
\* other assets get no more than the rest of the income.
C7_BufferDepositIsMinIncomeShortfall ==
    (IncomeCall /\ FirstHigh # <<>>) =>
        LET required_buffer ==
                RMul(call[1].annual_expenses, Rat(strategy.cash_buffer_months, 12))
            shortfall == RMax(Zero, RSub(required_buffer, TierTotal("HIGH")))
            deposit == RMin(call[1].amount, shortfall)
            others == DOMAIN call[1].result \ {FirstHigh[1]}
        IN  /\ Get(call[1].result, FirstHigh[1], Zero) = deposit
            /\ RLe(RSumOver(call[1].result, others), RSub(call[1].amount, deposit))

\* ------------------------------------------------------------------------
\* FIREPlanner: the projection builder (core/planner.py)
\* ------------------------------------------------------------------------

\* the projection's rows are the ages PlannerAge .. PlannerAge + MaxAgeSpan
MaxAgeSpan == 3
PlannerAge == 41

\* whole percents
Rates == {0, 100}

PlannerProfiles ==
    [current_age : {PlannerAge},
     life_expectancy : {PlannerAge + MaxAgeSpan},
     inflation_rate : Rates]

\* IncomeExpenseItem; end_age is <<>> for None, or <<an age from start_age on>>
IncomeExpenseItems ==
    {item \in [after_tax_amount_per_period : {2},
               frequency : {"recurring", "one-time"},
               start_age : PlannerAge .. PlannerAge + MaxAgeSpan,
               end_age : {<<>>} \cup {<<a>> : a \in PlannerAge .. PlannerAge + MaxAgeSpan},
               annual_growth_rate : Rates,
               is_income : BOOLEAN] :
        item.end_age # <<>> => item.start_age <= item.end_age[1]}

\* IncomeExpenseItem.get_effective_age_range of an item the user entered
\* (not a predefined one): the item's own start and end age
get_effective_age_range(item, prof) == <<item.start_age, item.end_age>>

\* effective_end_age or 999
EndOr999(effective_end_age) ==
    IF effective_end_age = <<>> \/ effective_end_age = <<0>> THEN 999
    ELSE effective_end_age[1]

\* _generate_initial_projection: the column of one item, by age; an item of
\* expense_items is also inflated
generate_initial_projection(prof, item) ==
    LET range == get_effective_age_range(item, prof)
        effective_start_age == range[1]
        effective_end_age == range[2]
        ages == prof.current_age .. prof.life_expectancy
    IN  Dict([age \in ages |->
            IF effective_start_age <= age /\ age <= EndOr999(effective_end_age)
            THEN LET years_since_start == age - effective_start_age
                     growth_factor ==
                         RPow(RAdd(Dec(1), Rat(item.annual_growth_rate, 100)),
                              years_since_start)
                     inflation_factor ==
                         RPow(RAdd(Dec(1), Rat(prof.inflation_rate, 100)),
                              years_since_start)
                 IN  IF item.is_income
                     THEN RMul(Dec(item.after_tax_amount_per_period), growth_factor)
                     ELSE RMul(RMul(Dec(item.after_tax_amount_per_period),
                                    inflation_factor), growth_factor)
            ELSE Zero])

PlannerInit ==
    /\ planner_profile \in PlannerProfiles
    /\ planner_item \in IncomeExpenseItems
    /\ projection = <<>>
    /\ NoEngine
    /\ NoStrategy
    /\ NoSession
    /\ NoBlackSwan
    /\ NoMonteCarlo /\ NoAdvisor /\ NoBuffers

GenerateInitialProjection ==
    /\ projection' = <<generate_initial_projection(planner_profile, planner_item)>>
    /\ UNCHANGED <<planner_profile, planner_item>>
    /\ UNCHANGED <<engine_vars, strategy_vars,
                   session_vars, black_swan_vars, monte_carlo_vars, advisor_vars, buffer_vars>>

PlannerNext == GenerateInitialProjection

SpecPlanner == PlannerInit /\ [][PlannerNext]_vars

\* C3: the column of a one-time item is after_tax_amount_per_period in the
\* row of its start_age and 0 in every other row.
C3_OneTimeItemOnlyAtStartAge ==
    (projection # <<>> /\ planner_item.frequency = "one-time") =>
        \A age \in DOMAIN projection[1] :
            projection[1][age] =
                IF age = planner_item.start_age
                THEN Dec(planner_item.after_tax_amount_per_period)
                ELSE Zero

\* ------------------------------------------------------------------------
\* FIREPlanner: the three stages (core/planner.py, core/planner_models.py)
\* ------------------------------------------------------------------------

\* at most this many items in income_items, and in expense_items
MaxItems == 1

\* a profile over the whole span of ages, and one that ends a year after
\* current_age
SessionProfiles ==
    [current_age : {PlannerAge},
     life_expectancy : {PlannerAge + 1, PlannerAge + MaxAgeSpan},
     inflation_rate : {0}]

IncomeItem ==
    [id |-> "income-1", name |-> "Salary", after_tax_amount_per_period |-> 2,
     frequency |-> "recurring", start_age |-> PlannerAge, end_age |-> <<>>,
     annual_growth_rate |-> 100, is_income |-> TRUE]

ExpenseItem ==
    [id |-> "expense-1", name |-> "Living", after_tax_amount_per_period |-> 2,
     frequency |-> "recurring", start_age |-> PlannerAge, end_age |-> <<>>,
     annual_growth_rate |-> 0, is_income |-> FALSE]

\* the ages, item ids and values of the overrides that are entered
OverrideAges == {PlannerAge + MaxAgeSpan}

OverrideItemIds == {"income-1", "unknown"}

OverrideValues == {Dec(7)}

\* SimulationSettings: the number of simulations stands for all its fields
SettingsValues == {[num_simulations |-> 1000], [num_simulations |-> 10]}

PlannerStage == {"STAGE1_INPUT", "STAGE2_ADJUSTMENT", "STAGE3_ANALYSIS"}

\* PlannerData with its defaults; None is <<>>, a value v is <<v>>
PlannerData(user_profile, income_items, expense_items, overrides, settings) ==
    [current_stage |-> "STAGE1_INPUT",
     user_profile |-> user_profile,
     income_items |-> income_items,
     expense_items |-> expense_items,
     projection_df |-> <<>>,
     overrides |-> overrides,
     results |-> <<>>,
     simulation_settings |-> settings]

\* Override(age, item_id, value)
Override(age, item_id, value) == [age |-> age, item_id |-> item_id, value |-> value]

\* how a call ended: the data it left, the error it raised (<<>> for none)
\* and the value it returned
Returned(d, value) == [data |-> d, raised |-> <<>>, value |-> value]

Raised(d, error) == [data |-> d, raised |-> <<error>>, value |-> <<>>]

\* _generate_initial_projection: the wide table, column name -> age -> amount
generate_projection_table(d) ==
    LET items == d.income_items \o d.expense_items
    IN  Dict([name \in {items[i].name : i \in DOMAIN items} |->
            generate_initial_projection(d.user_profile[1],
                items[CHOOSE i \in DOMAIN items :
                        /\ items[i].name = name
                        /\ \A j \in DOMAIN items : items[j].name = name => j <= i])])

\* _clean_invalid_overrides
clean_invalid_overrides(d) ==
    LET items == d.income_items \o d.expense_items
        valid_item_ids == {items[i].id : i \in DOMAIN items}
        valid_ages == IF d.user_profile # <<>>
                      THEN d.user_profile[1].current_age ..
                           d.user_profile[1].life_expectancy
                      ELSE {}
        Valid(o) == o.item_id \in valid_item_ids /\ o.age \in valid_ages
    IN  IF d.overrides = <<>> THEN d
        ELSE [d EXCEPT !.overrides = SelectSeq(d.overrides, Valid)]

\* _remove_overrides_for_item
remove_overrides_for_item(d, item_id) ==
    LET Other(o) == o.item_id # item_id
    IN  [d EXCEPT !.overrides = SelectSeq(d.overrides, Other)]

\* the item_id_to_name dict of _apply_overrides_to_df: the last item of an id
\* gives its name
item_id_to_name(d) ==
    LET items == d.income_items \o d.expense_items
    IN  Dict([id \in {items[i].id : i \in DOMAIN items} |->
            items[CHOOSE i \in DOMAIN items :
                    /\ items[i].id = id
                    /\ \A j \in DOMAIN items : items[j].id = id => j <= i].name])

\* one override written into a table: the cell of its item's column in the
\* row of its age, when the table has both
apply_override_to_df(names, df, o) ==
    IF o.item_id \notin DOMAIN names THEN df
    ELSE IF names[o.item_id] \notin DOMAIN df THEN df
    ELSE IF o.age \notin DOMAIN df[names[o.item_id]] THEN df
    ELSE [df EXCEPT ![names[o.item_id]][o.age] = o.value]

RECURSIVE apply_overrides_in_order(_, _, _, _)
apply_overrides_in_order(names, df, overrides, i) ==
    IF i > Len(overrides) THEN df
    ELSE apply_overrides_in_order(names,
             apply_override_to_df(names, df, overrides[i]), overrides, i + 1)

\* _apply_overrides_to_df, on the table it is handed
apply_overrides_to_df(d, df) ==
    IF d.overrides = <<>> THEN df
    ELSE apply_overrides_in_order(item_id_to_name(d), df, d.overrides, 1)

\* the list without its element at index i
DeleteAt(seq, i) == SubSeq(seq, 1, i - 1) \o SubSeq(seq, i + 1, Len(seq))

\* the index of the first item with the id, 0 when there is none
FirstWithId(items, item_id) ==
    IF \E i \in DOMAIN items : items[i].id = item_id
    THEN CHOOSE i \in DOMAIN items :
             /\ items[i].id = item_id
             /\ \A j \in DOMAIN items : items[j].id = item_id => i <= j
    ELSE 0

\* the regeneration that follows a removal in stage 2
regenerate_in_stage2(d) ==
    IF d.current_stage = "STAGE2_ADJUSTMENT"
    THEN [d EXCEPT !.projection_df = <<generate_projection_table(d)>>]
    ELSE d

set_user_profile(d, prof) ==
    IF d.current_stage # "STAGE1_INPUT"
    THEN Raised(d, "Can only set profile in stage 1")
    ELSE Returned(clean_invalid_overrides([d EXCEPT !.user_profile = <<prof>>]), <<>>)

add_income_item(d, item) ==
    IF d.current_stage # "STAGE1_INPUT"
    THEN Raised(d, "Can only add income items in stage 1")
    ELSE Returned([d EXCEPT !.income_items = Append(@, item)], <<item.id>>)

add_expense_item(d, item) ==
    IF d.current_stage # "STAGE1_INPUT"
    THEN Raised(d, "Can only add expense items in stage 1")
    ELSE Returned([d EXCEPT !.expense_items = Append(@, item)], <<item.id>>)

remove_income_item(d, item_id) ==
    IF d.current_stage \notin {"STAGE1_INPUT", "STAGE2_ADJUSTMENT"}
    THEN Raised(d, "Can only remove income items in stage 1 or 2")
    ELSE IF FirstWithId(d.income_items, item_id) = 0 THEN Returned(d, <<FALSE>>)
    ELSE Returned(regenerate_in_stage2(remove_overrides_for_item(
             [d EXCEPT !.income_items = DeleteAt(@, FirstWithId(@, item_id))],
             item_id)), <<TRUE>>)

remove_expense_item(d, item_id) ==
    IF d.current_stage \notin {"STAGE1_INPUT", "STAGE2_ADJUSTMENT"}
    THEN Raised(d, "Can only remove expense items in stage 1 or 2")
    ELSE IF FirstWithId(d.expense_items, item_id) = 0 THEN Returned(d, <<FALSE>>)
    ELSE Returned(regenerate_in_stage2(remove_overrides_for_item(
             [d EXCEPT !.expense_items = DeleteAt(@, FirstWithId(@, item_id))],
             item_id)), <<TRUE>>)

can_proceed_to_stage2(d) ==
    /\ d.user_profile # <<>>
    /\ Len(d.income_items) > 0
    /\ Len(d.expense_items) > 0

\* the body of proceed_to_stage2 after its checks
enter_stage2(d) ==
    [d EXCEPT !.projection_df = <<generate_projection_table(d)>>,
              !.current_stage = "STAGE2_ADJUSTMENT"]

\* proceed_to_stage2 without its check of the stage
proceed_to_stage2_from_any_stage(d) ==
    IF ~can_proceed_to_stage2(d)
    THEN Raised(d, "Missing required data for stage 2")
    ELSE Returned(enter_stage2(clean_invalid_overrides(d)),
                  <<generate_projection_table(d)>>)

proceed_to_stage2(d) ==
    IF d.current_stage # "STAGE1_INPUT"
    THEN Raised(d, "Can only proceed to stage 2 from stage 1")
    ELSE IF ~can_proceed_to_stage2(d)
    THEN Raised(d, "Missing required data for stage 2")
    ELSE Returned(enter_stage2(clean_invalid_overrides(d)),
                  <<generate_projection_table(d)>>)

\* get_projection_dataframe writing the overrides into the stored table
get_projection_dataframe_in_place(d) ==
    IF d.current_stage # "STAGE2_ADJUSTMENT" THEN Returned(d, <<>>)
    ELSE IF d.projection_df = <<>> THEN Returned(d, <<>>)
    ELSE Returned([d EXCEPT !.projection_df =
                                <<apply_overrides_to_df(d, d.projection_df[1])>>],
                  <<apply_overrides_to_df(d, d.projection_df[1])>>)

\* get_projection_dataframe: a copy of the table with the overrides applied
get_projection_dataframe(d) ==
    IF d.current_stage # "STAGE2_ADJUSTMENT" THEN Returned(d, <<>>)
    ELSE IF d.projection_df = <<>> THEN Returned(d, <<>>)
    ELSE Returned(d, <<apply_overrides_to_df(d, d.projection_df[1])>>)

get_base_projection_dataframe(d) ==
    IF d.current_stage # "STAGE2_ADJUSTMENT" THEN Returned(d, <<>>)
    ELSE Returned(d, d.projection_df)

\* the overrides without those of an age and item
without_override(overrides, age, item_id) ==
    LET Other(o) == ~(o.age = age /\ o.item_id = item_id)
    IN  SelectSeq(overrides, Other)

apply_override(d, age, item_id, value) ==
    IF d.current_stage # "STAGE2_ADJUSTMENT"
    THEN Raised(d, "Can only apply overrides in stage 2")
    ELSE IF d.projection_df = <<>>
    THEN Raised(d, "No projection DataFrame available")
    ELSE Returned([d EXCEPT !.overrides =
                       Append(without_override(@, age, item_id),
                              Override(age, item_id, value))], <<>>)

remove_override(d, age, item_id) ==
    IF d.current_stage # "STAGE2_ADJUSTMENT"
    THEN Raised(d, "Can only remove overrides in stage 2")
    ELSE Returned([d EXCEPT !.overrides = without_override(@, age, item_id)],
                  <<Len(without_override(d.overrides, age, item_id))
                        < Len(d.overrides)>>)

can_proceed_to_stage3(d) ==
    d.current_stage = "STAGE2_ADJUSTMENT" /\ d.projection_df # <<>>

\* the sum of a row of the table over the columns of the items, in order
RECURSIVE ColumnSum(_, _, _, _)
ColumnSum(df, items, age, i) ==
    IF i > Len(items) THEN Zero
    ELSE RAdd(df[items[i].name][age], ColumnSum(df, items, age, i + 1))

\* _create_annual_summary_from_df: age -> total income and total expense
create_annual_summary_from_df(d, df) ==
    Dict([age \in d.user_profile[1].current_age .. d.user_profile[1].life_expectancy |->
        [total_income |-> ColumnSum(df, d.income_items, age, 1),
         total_expense |-> ColumnSum(df, d.expense_items, age, 1)]])

\* FIREEngine(engine_input).calculate(): the result is a function of the
\* annual summary and the profile, which stand for it here
fire_calculation(d, calculation_df) ==
    [user_profile |-> d.user_profile[1],
     annual_financial_projection |-> create_annual_summary_from_df(d, calculation_df)]

\* what a step that may fail did: it raised, or it returned a value
StepRaised == [raised |-> TRUE, value |-> <<>>]

StepReturned(value) == [raised |-> FALSE, value |-> value]

MonteCarloOutcomes == {StepRaised, StepReturned(Rat(1, 2))}

AdvisorOutcomes == {StepRaised, StepReturned(<<"delayed_retirement">>)}

PlannerResults(fire_result, monte_carlo_success_rate, recommendations) ==
    [fire_calculation |-> fire_result,
     monte_carlo_success_rate |-> monte_carlo_success_rate,
     recommendations |-> recommendations]

\* _run_calculations without the try around the Monte Carlo step and the
\* advisor step
run_calculations_unguarded(d, monte_carlo, advisor) ==
    IF d.projection_df = <<>> \/ d.user_profile = <<>>
    THEN Raised(d, "Missing data for calculations")
    ELSE IF monte_carlo.raised THEN Raised(d, "Exception in run_simulation")
    ELSE IF advisor.raised THEN Raised(d, "Exception in get_all_recommendations")
    ELSE Returned(d, <<PlannerResults(
             fire_calculation(d, apply_overrides_to_df(d, d.projection_df[1])),
             <<monte_carlo.value>>, advisor.value)>>)

\* _run_calculations: the engine on a copy of the table with the overrides
\* applied, then the Monte Carlo step and the advisor step, each in a try
run_calculations_steps(d, monte_carlo, advisor) ==
    IF d.projection_df = <<>> \/ d.user_profile = <<>>
    THEN Raised(d, "Missing data for calculations")
    ELSE Returned(d, <<PlannerResults(
             fire_calculation(d, apply_overrides_to_df(d, d.projection_df[1])),
             IF monte_carlo.raised THEN <<>> ELSE <<monte_carlo.value>>,
             IF advisor.raised THEN <<>> ELSE advisor.value)>>)

\* the results of a calculation stored, when it returned
store_results(d, ran) ==
    IF ran.raised # <<>> THEN ran
    ELSE Returned([d EXCEPT !.results = ran.value], ran.value)

proceed_to_stage3(d, monte_carlo, advisor) ==
    IF d.current_stage # "STAGE2_ADJUSTMENT"
    THEN Raised(d, "Can only proceed to stage 3 from stage 2")
    ELSE IF ~can_proceed_to_stage3(d)
    THEN Raised(d, "Missing projection data for stage 3")
    ELSE IF run_calculations_steps(d, monte_carlo, advisor).raised # <<>>
    THEN run_calculations_steps(d, monte_carlo, advisor)
    ELSE Returned([d EXCEPT
             !.results = run_calculations_steps(d, monte_carlo, advisor).value,
             !.current_stage = "STAGE3_ANALYSIS"],
             run_calculations_steps(d, monte_carlo, advisor).value)

run_calculations(d, monte_carlo, advisor) ==
    IF d.projection_df = <<>>
    THEN Raised(d, "No projection data available for calculation")
    ELSE store_results(d, run_calculations_steps(d, monte_carlo, advisor))

set_simulation_settings(d, settings) ==
    Returned([d EXCEPT !.simulation_settings = settings], <<>>)

\* PlannerConfigV1.from_planner_data: the dicts of model_dump; a planner
\* without a profile gives the empty dict
from_planner_data(d) ==
    [version |-> "1.0",
     profile |-> IF d.user_profile # <<>> THEN d.user_profile[1] ELSE <<>>,
     income_items |-> d.income_items,
     expense_items |-> d.expense_items,
     overrides |-> d.overrides,
     simulation_settings |-> d.simulation_settings]

\* UserProfile(**profile) validates: birth_year is a required field
ProfileValidates(profile_dict) == "current_age" \in DOMAIN profile_dict

\* PlannerConfigV1.to_planner_data
to_planner_data(config) ==
    PlannerData(<<config.profile>>, config.income_items, config.expense_items,
                config.overrides, config.simulation_settings)

\* import_config_from_file: self.data is replaced once the file's config was
\* converted
import_config_from_file(d, file) ==
    IF ~ProfileValidates(file.profile)
    THEN Raised(d, "ValidationError: UserProfile")
    ELSE Returned(to_planner_data(file), <<>>)

\* a reset that keeps the overrides
reset_to_stage1_keeping_overrides(d) ==
    Returned([d EXCEPT !.current_stage = "STAGE1_INPUT",
                       !.projection_df = <<>>,
                       !.results = <<>>], <<>>)

reset_to_stage1(d) ==
    Returned([d EXCEPT !.current_stage = "STAGE1_INPUT",
                       !.projection_df = <<>>,
                       !.overrides = <<>>,
                       !.results = <<>>], <<>>)

back_to_stage1(d) ==
    IF d.current_stage # "STAGE2_ADJUSTMENT"
    THEN Raised(d, "Can only go back to stage 1 from stage 2")
    ELSE Returned([d EXCEPT !.projection_df = <<>>,
                            !.current_stage = "STAGE1_INPUT",
                            !.results = <<>>], <<>>)

back_to_stage2(d) ==
    IF d.current_stage # "STAGE3_ANALYSIS"
    THEN Raised(d, "Can only go back to stage 2 from stage 3")
    ELSE IF d.projection_df = <<>>
    THEN Raised(d, "No projection data available")
    ELSE Returned([d EXCEPT !.current_stage = "STAGE2_ADJUSTMENT",
                            !.results = <<>>],
                  <<apply_overrides_to_df(d, d.projection_df[1])>>)

\* a new FIREPlanner
SessionInit ==
    /\ data = PlannerData(<<>>, <<>>, <<>>, <<>>, [num_simulations |-> 1000])
    /\ outcome = <<>>
    /\ config_file = <<>>
    /\ exported = <<>>
    /\ NoEngine
    /\ NoStrategy
    /\ NoPlanner
    /\ NoBlackSwan
    /\ NoMonteCarlo /\ NoAdvisor /\ NoBuffers

\* a call of a method of the planner that ended as `ran` tells; the file of
\* an export is a temporary one, gone by the time of the next call
Call(method, args, ran) ==
    /\ data' = ran.data
    /\ outcome' = <<[method |-> method, args |-> args,
                     raised |-> ran.raised, value |-> ran.value]>>
    /\ config_file' = <<>>
    /\ exported' = IF method = "import_config_from_file" THEN exported ELSE <<>>
    /\ UNCHANGED <<engine_vars, strategy_vars, planner_vars,
                   black_swan_vars, monte_carlo_vars, advisor_vars, buffer_vars>>

SetUserProfile == \E prof \in SessionProfiles :
    Call("set_user_profile", <<prof>>, set_user_profile(data, prof))

AddIncomeItem ==
    /\ Len(data.income_items) < MaxItems
    /\ Call("add_income_item", <<IncomeItem>>, add_income_item(data, IncomeItem))

AddExpenseItem ==
    /\ Len(data.expense_items) < MaxItems
    /\ Call("add_expense_item", <<ExpenseItem>>, add_expense_item(data, ExpenseItem))

RemoveIncomeItem == \E item_id \in {IncomeItem.id, "unknown"} :
    Call("remove_income_item", <<item_id>>, remove_income_item(data, item_id))

RemoveExpenseItem == \E item_id \in {ExpenseItem.id, "unknown"} :
    Call("remove_expense_item", <<item_id>>, remove_expense_item(data, item_id))

ProceedToStage2 == Call("proceed_to_stage2", <<>>, proceed_to_stage2(data))

GetProjectionDataframe ==
    Call("get_projection_dataframe", <<>>, get_projection_dataframe(data))

ApplyOverride ==
    \E age \in OverrideAges : \E item_id \in OverrideItemIds :
        \E value \in OverrideValues :
            Call("apply_override", <<age, item_id, value>>,
                 apply_override(data, age, item_id, value))

RemoveOverride ==
    \E age \in OverrideAges : \E item_id \in OverrideItemIds :
        Call("remove_override", <<age, item_id>>, remove_override(data, age, item_id))

ProceedToStage3 ==
    \E monte_carlo \in MonteCarloOutcomes : \E advisor \in AdvisorOutcomes :
        Call("proceed_to_stage3", <<monte_carlo, advisor>>,
             proceed_to_stage3(data, monte_carlo, advisor))

RunCalculations ==
    \E monte_carlo \in MonteCarloOutcomes : \E advisor \in AdvisorOutcomes :
        Call("run_calculations", <<monte_carlo, advisor>>,
             run_calculations(data, monte_carlo, advisor))

SetSimulationSettings == \E settings \in SettingsValues :
    Call("set_simulation_settings", <<settings>>,
         set_simulation_settings(data, settings))

ResetToStage1 == Call("reset_to_stage1", <<>>, reset_to_stage1(data))

BackToStage1 == Call("back_to_stage1", <<>>, back_to_stage1(data))

BackToStage2 == Call("back_to_stage2", <<>>, back_to_stage2(data))

\* export_config_to_file: the planner writes its configuration to the file
ExportConfigToFile ==
    /\ config_file' = <<from_planner_data(data)>>
    /\ exported' = <<data>>
    /\ outcome' = <<[method |-> "export_config_to_file", args |-> <<>>,
                     raised |-> <<>>, value |-> <<>>]>>
    /\ UNCHANGED data
    /\ UNCHANGED <<engine_vars, strategy_vars, planner_vars,
                   black_swan_vars, monte_carlo_vars, advisor_vars, buffer_vars>>

\* import_config_from_file, by a planner that imports the file just written
ImportConfigFromFile ==
    /\ config_file # <<>>
    /\ Call("import_config_from_file", <<>>,
            import_config_from_file(data, config_file[1]))

SessionNext ==
    \/ SetUserProfile
    \/ AddIncomeItem
    \/ AddExpenseItem
    \/ RemoveIncomeItem
    \/ RemoveExpenseItem
    \/ ProceedToStage2
    \/ GetProjectionDataframe
    \/ ApplyOverride
    \/ RemoveOverride
    \/ ProceedToStage3
    \/ RunCalculations
    \/ SetSimulationSettings
    \/ ResetToStage1
    \/ BackToStage1
    \/ BackToStage2
    \/ ExportConfigToFile
    \/ ImportConfigFromFile

SpecSession == SessionInit /\ [][SessionNext]_vars

\* ------------------------------------------------------------------------
\* Properties of the planner's stages
\* ------------------------------------------------------------------------

\* the planner's last call
LastCall == outcome[1]

Called(methods) == outcome # <<>> /\ LastCall.method \in methods

\* C11: the stored projection is the table generated from the current profile
\* and items alone, whatever overrides were applied, removed, read or
\* calculated with; and a table read while no override is stored is that
\* generated table.
C11_BaseProjectionIsGenerated ==
    data.projection_df # <<>> =>
        /\ data.projection_df[1] = generate_projection_table(data)
        /\ (/\ Called({"get_projection_dataframe"})
            /\ LastCall.value # <<>>
            /\ data.overrides = <<>>)
           => LastCall.value[1] = generate_projection_table(data)

\* a table was read that shows an override of the income item, over a stored
\* table that does not
C11_Witness ==
    /\ Called({"get_projection_dataframe"})
    /\ LastCall.value # <<>>
    /\ data.projection_df # <<>>
    /\ \E i \in DOMAIN data.overrides :
           /\ data.overrides[i].item_id = IncomeItem.id
           /\ IncomeItem.name \in DOMAIN LastCall.value[1]
           /\ data.overrides[i].age \in DOMAIN LastCall.value[1][IncomeItem.name]
           /\ LastCall.value[1][IncomeItem.name][data.overrides[i].age]
                  = data.overrides[i].value
           /\ data.projection_df[1][IncomeItem.name][data.overrides[i].age]
                  # data.overrides[i].value

\* an override of an item the planner holds, at an age of the profile's range
ValidOverride(d, o) ==
    /\ \E i \in DOMAIN (d.income_items \o d.expense_items) :
           (d.income_items \o d.expense_items)[i].id = o.item_id
    /\ d.user_profile # <<>>
    /\ o.age \in d.user_profile[1].current_age .. d.user_profile[1].life_expectancy

\* the last call replaced the profile or removed an item
ProfileOrItemsChanged ==
    \/ Called({"set_user_profile"}) /\ LastCall.raised = <<>>
    \/ Called({"remove_income_item", "remove_expense_item"})
           /\ LastCall.value = <<TRUE>>

\* C12: right after the profile is replaced or an item is removed, every
\* stored override is of a current item and of an age in
\* current_age..life_expectancy.
C12_NoInvalidOverrideAfterChange ==
    ProfileOrItemsChanged =>
        \A i \in DOMAIN data.overrides : ValidOverride(data, data.overrides[i])

\* C13: a call whose data dependencies hold is not rejected: setting the
\* profile and adding an item need nothing, editing an override needs a
\* stored projection.
C13_NoCallRejectedForStage ==
    (\/ Called({"set_user_profile", "add_income_item", "add_expense_item"})
     \/ Called({"apply_override", "remove_override"}) /\ data.projection_df # <<>>)
        => LastCall.raised = <<>>

\* C14: a call of proceed_to_stage2 in STAGE1_INPUT with a profile, an income
\* item and an expense item returns, stores the table generated from them and
\* sets STAGE2_ADJUSTMENT; any other call of it raises and leaves stage,
\* projection and overrides as they were.
C14_ProceedToStage2 ==
    [][(outcome' # <<>> /\ outcome'[1].method = "proceed_to_stage2") =>
          IF data.current_stage = "STAGE1_INPUT" /\ can_proceed_to_stage2(data)
          THEN /\ outcome'[1].raised = <<>>
               /\ data'.current_stage = "STAGE2_ADJUSTMENT"
               /\ data'.projection_df = <<generate_projection_table(data')>>
               /\ outcome'[1].value = data'.projection_df
          ELSE /\ outcome'[1].raised # <<>>
               /\ data'.current_stage = data.current_stage
               /\ data'.projection_df = data.projection_df
               /\ data'.overrides = data.overrides]_vars

\* proceed_to_stage2 was called in stage 2, over stored overrides, and raised
C14_Witness ==
    /\ Called({"proceed_to_stage2"})
    /\ LastCall.raised # <<>>
    /\ data.current_stage = "STAGE2_ADJUSTMENT"
    /\ data.overrides # <<>>
    /\ can_proceed_to_stage2(data)

\* C15: reset_to_stage1 sets STAGE1_INPUT, clears the projection, the
\* overrides and the results, and leaves profile, income items and expense
\* items as they were.
C15_ResetToStage1 ==
    [][(outcome' # <<>> /\ outcome'[1].method = "reset_to_stage1") =>
          /\ outcome'[1].raised = <<>>
          /\ data'.current_stage = "STAGE1_INPUT"
          /\ data'.projection_df = <<>>
          /\ data'.overrides = <<>>
          /\ data'.results = <<>>
          /\ data'.user_profile = data.user_profile
          /\ data'.income_items = data.income_items
          /\ data'.expense_items = data.expense_items]_vars

\* the planner was reset and still holds its profile and its items
C15_Witness ==
    /\ Called({"reset_to_stage1"})
    /\ data.user_profile # <<>>
    /\ data.income_items # <<>>
    /\ data.expense_items # <<>>

\* C16: after the import of an exported file the importing planner holds the
\* profile, items, overrides and simulation settings the exporter held, in
\* STAGE1_INPUT, without projection and without results.
C16_ImportGivesExportedData ==
    Called({"import_config_from_file"}) =>
        /\ LastCall.raised = <<>>
        /\ data.user_profile = exported[1].user_profile
        /\ data.income_items = exported[1].income_items
        /\ data.expense_items = exported[1].expense_items
        /\ data.overrides = exported[1].overrides
        /\ data.simulation_settings = exported[1].simulation_settings
        /\ data.current_stage = "STAGE1_INPUT"
        /\ data.projection_df = <<>>
        /\ data.results = <<>>

\* C17: a calculation on a stored projection (in stage 2, for
\* proceed_to_stage3) returns and stores PlannerResults with the engine's
\* fire_calculation whatever the Monte Carlo step and the advisor step did;
\* the success rate is absent when Monte Carlo raised, the recommendations
\* are the empty list when the advisor raised.
C17_StepFailuresAreContained ==
    [][(/\ outcome' # <<>>
        /\ outcome'[1].method \in {"run_calculations", "proceed_to_stage3"}
        /\ data.projection_df # <<>>
        /\ data.user_profile # <<>>
        /\ outcome'[1].method = "proceed_to_stage3" =>
               data.current_stage = "STAGE2_ADJUSTMENT")
       => /\ outcome'[1].raised = <<>>
          /\ outcome'[1].value # <<>>
          /\ data'.results = outcome'[1].value
          /\ outcome'[1].value[1].fire_calculation =
                 fire_calculation(data,
                     apply_overrides_to_df(data, data.projection_df[1]))
          /\ outcome'[1].args[1].raised =>
                 outcome'[1].value[1].monte_carlo_success_rate = <<>>
          /\ outcome'[1].args[2].raised =>
                 outcome'[1].value[1].recommendations = <<>>]_vars

\* a calculation returned although both optional steps raised
C17_Witness ==
    /\ Called({"run_calculations", "proceed_to_stage3"})
    /\ LastCall.args[1].raised
    /\ LastCall.args[2].raised
    /\ LastCall.raised = <<>>
    /\ data.results # <<>>

\* ------------------------------------------------------------------------
\* MonteCarloSimulator: black swan events over the rows of a scenario
\* (core/monte_carlo.py, core/black_swan_events.py)
\* ------------------------------------------------------------------------

\* the rows of the scenario
MaxYears == 3

\* the profile of the engine: current_age and life_expectancy as in the
\* tests, and a FIRE age inside the scenario's rows
ScenarioAge == 35

FireAge == ScenarioAge + 1

LifeExpectancy == 85

\* BlackSwanEvent: event_id, duration_years, recovery_factor, age_range
BlackSwanEvent(event_id, duration_years, recovery_factor, age_range) ==
    [event_id |-> event_id, duration_years |-> duration_years,
     recovery_factor |-> recovery_factor, age_range |-> age_range]

\* create_black_swan_events: four of its events, in its order; the working
\* period starts at max(22, current_age), the career ends at the FIRE age
all_events ==
    <<BlackSwanEvent("financial_crisis", 2, Rat(8, 10), <<ScenarioAge, LifeExpectancy>>),
      BlackSwanEvent("economic_recession", 1, Rat(9, 10), <<ScenarioAge, LifeExpectancy>>),
      BlackSwanEvent("hyperinflation", 3, Rat(7, 10), <<ScenarioAge, LifeExpectancy>>),
      BlackSwanEvent("unemployment", 2, Rat(4, 10), <<ScenarioAge, FireAge>>)>>

\* the factor 1 + impact * recovery_multiplier
impact_multiplier(impact, recovery_multiplier) ==
    RAdd(Dec(1), RMul(impact, recovery_multiplier))

\* the factors apply_impact puts on total_income and total_expense
income_impact(event, recovery_multiplier) ==
    CASE event.event_id = "financial_crisis" ->
             impact_multiplier(Rat(-4, 10), recovery_multiplier)
      [] event.event_id = "economic_recession" ->
             impact_multiplier(Rat(-25, 100), recovery_multiplier)
      [] event.event_id = "hyperinflation" ->
             impact_multiplier(Rat(-3, 10), recovery_multiplier)
      [] event.event_id = "unemployment" ->
             RMax(Rat(1, 10), impact_multiplier(Dec(-1), recovery_multiplier))

expense_impact(event, recovery_multiplier) ==
    IF event.event_id = "hyperinflation"
    THEN impact_multiplier(Rat(3, 10), recovery_multiplier)
    ELSE Dec(1)

\* BlackSwanEvent.apply_impact on the row year_idx (0-based) of a table
apply_impact(event, df, idx, recovery_multiplier) ==
    [df EXCEPT ![idx + 1] =
        [@ EXCEPT !.total_income = RMul(@, income_impact(event, recovery_multiplier)),
                  !.total_expense = RMul(@, expense_impact(event, recovery_multiplier))]]

\* the events of all_events that apply at an age: those that
\* _simulate_black_swan_events draws for
AgeEligible(age) ==
    {i \in DOMAIN all_events :
        all_events[i].age_range[1] <= age /\ age <= all_events[i].age_range[2]}

\* the events of a set of indices of all_events, in the order of all_events
RECURSIVE InOrder(_, _)
InOrder(indices, i) ==
    IF i > Len(all_events) THEN <<>>
    ELSE (IF i \in indices THEN <<all_events[i]>> ELSE <<>>) \o InOrder(indices, i + 1)

\* the ids of the active events; active_events is the dict in insertion
\* order, a sequence of [event, years_remaining]
ActiveIds(active) == {active[i].event.event_id : i \in DOMAIN active}

\* the new events taken although an event of their id is active
actually_triggered_unfiltered(new_events, active) == new_events

\* the new events that are not active already
actually_triggered(new_events, active) ==
    LET NotActive(event) == event.event_id \notin ActiveIds(active)
    IN  SelectSeq(new_events, NotActive)

\* active_events[event_id] = (event, years_remaining): the entry of the id is
\* replaced where it is, a new id goes to the end
SetActive(active, event, years_remaining) ==
    IF event.event_id \in ActiveIds(active)
    THEN [i \in DOMAIN active |->
             IF active[i].event.event_id = event.event_id
             THEN [event |-> event, years_remaining |-> years_remaining]
             ELSE active[i]]
    ELSE Append(active, [event |-> event, years_remaining |-> years_remaining])

\* the triggered events of more than one year entered into active_events
RECURSIVE activate(_, _, _)
activate(active, triggered, i) ==
    IF i > Len(triggered) THEN active
    ELSE activate(IF triggered[i].duration_years > 1
                  THEN SetActive(active, triggered[i], triggered[i].duration_years - 1)
                  ELSE active,
                  triggered, i + 1)

\* the ids of a list of events
RECURSIVE EventIds(_)
EventIds(events) ==
    IF events = <<>> THEN <<>>
    ELSE <<events[1].event_id>> \o EventIds(Tail(events))

\* one apply_impact call of the log
Applied(idx, event, recovery_multiplier) ==
    [year_idx |-> idx, event_id |-> event.event_id,
     recovery_multiplier |-> recovery_multiplier]

\* the first-year impacts, at full strength: table and log
RECURSIVE apply_new_events(_, _, _, _)
apply_new_events(st, triggered, idx, i) ==
    IF i > Len(triggered) THEN st
    ELSE apply_new_events(
             [df |-> apply_impact(triggered[i], st.df, idx, Dec(1)),
              log |-> Append(st.log, Applied(idx, triggered[i], Dec(1)))],
             triggered, idx, i + 1)

\* an ongoing loop that does not skip the events triggered this year
is_ongoing_also_new(entry, newly_active_event_ids) == TRUE

\* the ongoing loop skips the events that were triggered this year
is_ongoing(entry, newly_active_event_ids) ==
    entry.event.event_id \notin newly_active_event_ids

\* years_remaining of an ongoing event counted down; the entry is deleted
\* when nothing remains
count_down(active, entry) ==
    LET Other(other) == other.event.event_id # entry.event.event_id
    IN  IF entry.years_remaining - 1 <= 0
        THEN SelectSeq(active, Other)
        ELSE SetActive(active, entry.event, entry.years_remaining - 1)

\* one ongoing event applied by its recovery_factor: table, log and dict
apply_ongoing_event(st, entry, idx) ==
    [df |-> apply_impact(entry.event, st.df, idx, entry.event.recovery_factor),
     log |-> Append(st.log, Applied(idx, entry.event, entry.event.recovery_factor)),
     active |-> count_down(st.active, entry)]

\* the loop over list(active_events.items())
RECURSIVE apply_ongoing_events(_, _, _, _, _)
apply_ongoing_events(st, items, newly_active_event_ids, idx, i) ==
    IF i > Len(items) THEN st
    ELSE apply_ongoing_events(
             IF is_ongoing(items[i], newly_active_event_ids)
             THEN apply_ongoing_event(st, items[i], idx)
             ELSE st,
             items, newly_active_event_ids, idx, i + 1)

\* after the new events: the table, the log and the dict for the ongoing loop
with_active(st, active) == [df |-> st.df, log |-> st.log, active |-> active]

\* the part of an iteration that follows the filter, with the dict as the
\* triggered events left it
black_swan_impacts(df, log, active, triggered, idx) ==
    apply_ongoing_events(
        with_active(apply_new_events([df |-> df, log |-> log], triggered, idx, 1),
                    active),
        active, {triggered[i].event_id : i \in DOMAIN triggered}, idx, 1)

\* one iteration of the loop of _apply_black_swan_events, for the events
\* that were triggered
black_swan_year(df, log, active, triggered, idx) ==
    black_swan_impacts(df, log, activate(active, triggered, 1), triggered, idx)

\* the base scenario of the tests: income 100000 and expense 50000 in every
\* row, one row per age from the current age on
BaseScenario ==
    [i \in 1 .. MaxYears |->
        [age |-> ScenarioAge + i - 1,
         total_income |-> Dec(100000),
         total_expense |-> Dec(50000)]]

\* _apply_black_swan_events is entered: its locals before the loop
BlackSwanInit ==
    /\ modified_df = BaseScenario
    /\ active_events = <<>>
    /\ triggered_event_ids = <<>>
    /\ year_idx = 0
    /\ applied = <<>>
    /\ simulated = <<>>
    /\ NoEngine
    /\ NoStrategy
    /\ NoPlanner
    /\ NoSession
    /\ NoMonteCarlo /\ NoAdvisor /\ NoBuffers

\* one iteration of the loop over the rows; _simulate_black_swan_events
\* returns the eligible events whose random draw fell below their probability
ApplyBlackSwanYear ==
    /\ year_idx < Len(modified_df)
    /\ \E hits \in SUBSET AgeEligible(modified_df[year_idx + 1].age) :
       \E triggered \in {actually_triggered(InOrder(hits, 1), active_events)} :
       \E year \in {black_swan_year(modified_df, applied, active_events,
                                    triggered, year_idx)} :
           /\ modified_df' = year.df
           /\ applied' = year.log
           /\ active_events' = year.active
           /\ triggered_event_ids' = triggered_event_ids \o EventIds(triggered)
           /\ simulated' = Append(simulated, {all_events[i].event_id : i \in hits})
    /\ year_idx' = year_idx + 1
    /\ UNCHANGED <<engine_vars, strategy_vars, planner_vars, session_vars,
                   monte_carlo_vars, advisor_vars, buffer_vars>>

BlackSwanNext == ApplyBlackSwanYear

SpecBlackSwan == BlackSwanInit /\ [][BlackSwanNext]_vars

\* ------------------------------------------------------------------------
\* Properties of the black swan schedule
\* ------------------------------------------------------------------------

\* the rows (0-based) that were processed
RowsDone == 0 .. year_idx - 1

EventSet == {all_events[i] : i \in DOMAIN all_events}

\* the rows before row t in which a trigger of the event would still be
\* running at row t
RowsBefore(event, t) ==
    {u \in 0 .. t - 1 : t <= u + event.duration_years - 1}

\* the event triggers at row t: it is hit there, and no trigger of it in an
\* earlier row is still running
RECURSIVE Triggers(_, _)
Triggers(event, t) ==
    /\ event.event_id \in simulated[t + 1]
    /\ \A u \in RowsBefore(event, t) : ~Triggers(event, u)

\* the event is active at row t: triggered in an earlier row, its duration
\* not yet elapsed
ActiveAt(event, t) == \E u \in RowsBefore(event, t) : Triggers(event, u)

\* the recovery multipliers of the apply_impact calls of an event at a row
Multipliers(event, t) ==
    LET Here(a) == a.year_idx = t /\ a.event_id = event.event_id
        calls == SelectSeq(applied, Here)
    IN  [i \in DOMAIN calls |-> calls[i].recovery_multiplier]

\* C18: an event that triggers at row t is applied there once, with
\* recovery_multiplier 1.0; at each later row in which it is still active it
\* is applied once, with its recovery_factor; at any other row it is not
\* applied.
C18_EventSchedule ==
    \A event \in EventSet : \A t \in RowsDone :
        Multipliers(event, t) =
            IF Triggers(event, t) THEN <<Dec(1)>>
            ELSE IF ActiveAt(event, t) THEN <<event.recovery_factor>>
            ELSE <<>>

\* the two-year financial crisis of the test: hit in the first row only,
\* incomes 60000, 68000 and 100000
C18_Witness ==
    /\ year_idx = 3
    /\ simulated[1] = {"financial_crisis"}
    /\ simulated[2] = {}
    /\ simulated[3] = {}
    /\ modified_df[1].total_income = Dec(60000)
    /\ modified_df[2].total_income = Dec(68000)
    /\ modified_df[3].total_income = Dec(100000)

\* the event was hit at row t while it was active
HitWhileActive(event, t) ==
    event.event_id \in simulated[t + 1] /\ ActiveAt(event, t)

\* how often an id is in a list
RECURSIVE Count(_, _)
Count(id, ids) ==
    IF ids = <<>> THEN 0
    ELSE (IF ids[1] = id THEN 1 ELSE 0) + Count(id, Tail(ids))

\* C19: a hit of an event that is active is ignored: the event is not added
\* to the triggered list, gets no full-strength impact in that row, and its
\* remaining duration is the one its trigger gave it.
C19_DuplicateHitIgnored ==
    \A event \in EventSet :
        (\E t \in RowsDone : HitWhileActive(event, t)) =>
            /\ Count(event.event_id, triggered_event_ids) =
                   Cardinality({t \in RowsDone : Triggers(event, t)})
            /\ \A t \in RowsDone :
                   HitWhileActive(event, t) =>
                       \A i \in DOMAIN applied :
                           applied[i] # Applied(t, event, Dec(1))
            /\ \A i \in DOMAIN active_events :
                   active_events[i].event = event =>
                       \E u \in RowsDone :
                           /\ Triggers(event, u)
                           /\ active_events[i].years_remaining =
                                  u + event.duration_years - year_idx
                           /\ active_events[i].years_remaining >= 1

\* the test's duplicate: the financial crisis hit in the first and in the
\* second row, triggered once, and over after its two years
C19_Witness ==
    /\ year_idx = 3
    /\ simulated[1] = {"financial_crisis"}
    /\ simulated[2] = {"financial_crisis"}
    /\ simulated[3] = {}
    /\ triggered_event_ids = <<"financial_crisis">>
    /\ modified_df[2].total_income = Dec(68000)
    /\ modified_df[3].total_income = Dec(100000)

\* ------------------------------------------------------------------------
\* MonteCarloSimulator.run_simulation and the global random generators
\* ------------------------------------------------------------------------

\* the two simulators of the tests
SimulatorIds == {"simulator1", "simulator2"}

\* seed: None is <<>>
Seeds == {<<>>, <<1>>, <<2>>}

\* SimulationSettings: the fields run_simulation and its scenarios read
SimulationSettings(num_simulations, include_black_swan_events) ==
    [num_simulations |-> num_simulations,
     include_black_swan_events |-> include_black_swan_events,
     income_base_volatility |-> Rat(1, 10),
     income_minimum_factor |-> Rat(1, 10),
     expense_base_volatility |-> Rat(5, 100),
     expense_minimum_factor |-> Rat(5, 10)]

SettingsChoices == {SimulationSettings(2, TRUE), SimulationSettings(1, FALSE)}

\* a generator steps from one state to the next; the state it reaches is
\* the number it gives
next_random(x) == (5 * x + 3) % 16

\* random.seed(seed); np.random.seed(seed)
seed_generators(seed) == [py |-> seed % 16, np |-> seed % 16]

\* the generators as a run_simulation that does not seed again finds them
reseed_never(rs, seed) == rs

\* run_simulation: the generators are seeded again when the simulator has a
\* seed
reseed(rs, seed) == IF seed # <<>> THEN seed_generators(seed[1]) ELSE rs

\* np.random.normal(1.0, volatility), by the generator's number: a step
\* below, at, or above 1
normal(x, volatility) ==
    CASE x % 3 = 0 -> RSub(Dec(1), volatility)
      [] x % 3 = 1 -> Dec(1)
      [] x % 3 = 2 -> RAdd(Dec(1), volatility)

\* random.random() < event.annual_probability, by the generator's number
below_probability(x, event) == x % 4 = 0

\* _generate_income_variation and the multiplication of the column: a draw
\* for each row before the FIRE age
RECURSIVE income_variation(_, _, _, _)
income_variation(df, rs, settings, i) ==
    IF i > Len(df) THEN [df |-> df, rs |-> rs]
    ELSE IF df[i].age < FireAge
    THEN income_variation(
             [df EXCEPT ![i].total_income =
                 RMul(@, RMax(settings.income_minimum_factor,
                              normal(next_random(rs.np),
                                     settings.income_base_volatility)))],
             [rs EXCEPT !.np = next_random(@)], settings, i + 1)
    ELSE income_variation(df, rs, settings, i + 1)

\* _generate_expense_variation and the multiplication of the column: a draw
\* for every row
RECURSIVE expense_variation(_, _, _, _)
expense_variation(df, rs, settings, i) ==
    IF i > Len(df) THEN [df |-> df, rs |-> rs]
    ELSE expense_variation(
             [df EXCEPT ![i].total_expense =
                 RMul(@, RMax(settings.expense_minimum_factor,
                              normal(next_random(rs.np),
                                     settings.expense_base_volatility)))],
             [rs EXCEPT !.np = next_random(@)], settings, i + 1)

\* _simulate_black_swan_events: a draw for each event of the age, in the
\* order of all_events
RECURSIVE simulate_black_swan_events(_, _, _, _)
simulate_black_swan_events(age, rs, events, i) ==
    IF i > Len(all_events) THEN [events |-> events, rs |-> rs]
    ELSE IF i \notin AgeEligible(age)
    THEN simulate_black_swan_events(age, rs, events, i + 1)
    ELSE simulate_black_swan_events(age,
             [rs EXCEPT !.py = next_random(@)],
             IF below_probability(next_random(rs.py), all_events[i])
             THEN Append(events, all_events[i]) ELSE events,
             i + 1)

\* one row of _apply_black_swan_events, for the events that were drawn
scenario_year(st, drawn, triggered, idx) ==
    [year |-> black_swan_year(st.df, <<>>, st.active, triggered, idx),
     events |-> st.events \o EventIds(triggered),
     rs |-> drawn.rs]

\* the locals after the row
after_year(st) ==
    [df |-> st.year.df, active |-> st.year.active, events |-> st.events, rs |-> st.rs]

\* _apply_black_swan_events with the generators: the loop over the rows
RECURSIVE apply_black_swan_events(_, _)
apply_black_swan_events(st, idx) ==
    IF idx >= Len(st.df) THEN st
    ELSE apply_black_swan_events(
             after_year(scenario_year(st,
                 simulate_black_swan_events(st.df[idx + 1].age, st.rs, <<>>, 1),
                 actually_triggered(
                     simulate_black_swan_events(st.df[idx + 1].age, st.rs, <<>>, 1).events,
                     st.active),
                 idx)),
             idx + 1)

\* the events of the scenario, when the settings include them
with_black_swan_events(varied, settings) ==
    IF settings.include_black_swan_events
    THEN apply_black_swan_events(
             [df |-> varied.df, active |-> <<>>, events |-> <<>>, rs |-> varied.rs], 0)
    ELSE [df |-> varied.df, active |-> <<>>, events |-> <<>>, rs |-> varied.rs]

\* with the income varied: the expense varied
vary_expense(varied, settings) == expense_variation(varied.df, varied.rs, settings, 1)

\* _generate_random_scenario: the scenario, its events, and the generators
generate_random_scenario(base_df, settings, rs) ==
    with_black_swan_events(
        vary_expense(income_variation(base_df, rs, settings, 1), settings), settings)

\* the sum of income minus expense over the rows from row i on
RECURSIVE NetFlow(_, _)
NetFlow(df, i) ==
    IF i > Len(df) THEN Zero
    ELSE RAdd(RSub(df[i].total_income, df[i].total_expense), NetFlow(df, i + 1))

\* the least of a set of numbers
LeastOf(S) == CHOOSE a \in S : \A b \in S : RLe(a, b)

\* the greatest of a set of numbers
GreatestOf(S) == CHOOSE a \in S : \A b \in S : RLe(b, a)

\* FIREEngine(temp_input).calculate() on a scenario: a new engine on the same
\* profile, whose result is a function of the scenario; the sum of the net
\* cash flows stands for its net worth, and their all being positive for
\* is_fire_achievable
calculate(scenario_df) ==
    [final_net_worth |-> NetFlow(scenario_df, 1),
     minimum_net_worth |-> LeastOf({NetFlow(scenario_df, i) : i \in DOMAIN scenario_df}),
     is_fire_achievable |->
         \A i \in DOMAIN scenario_df :
             RLt(scenario_df[i].total_expense, scenario_df[i].total_income)]

\* simulation_data.append(...) for a scenario and the result of its engine
simulation_record(scenario, result) ==
    [final_net_worth |-> result.final_net_worth,
     minimum_net_worth |-> result.minimum_net_worth,
     fire_success |-> result.is_fire_achievable,
     black_swan_events |-> scenario.events]

\* the loop of run_simulation: simulation_data and the generators after
\* num_simulations scenarios
RECURSIVE simulate_runs(_, _, _, _, _)
RECURSIVE simulate_next(_, _, _, _, _)
simulate_runs(base_df, settings, rs, simulation_data, run_id) ==
    IF run_id >= settings.num_simulations
    THEN [simulation_data |-> simulation_data, rs |-> rs]
    ELSE simulate_next(base_df, settings, simulation_data, run_id,
                       generate_random_scenario(base_df, settings, rs))

\* the scenario of a run calculated and recorded, then the next run
simulate_next(base_df, settings, simulation_data, run_id, scenario) ==
    simulate_runs(base_df, settings, scenario.rs,
                  Append(simulation_data,
                         simulation_record(scenario, calculate(scenario.df))),
                  run_id + 1)

\* the events of all the scenarios, in order
RECURSIVE all_triggered(_, _)
all_triggered(simulation_data, i) ==
    IF i > Len(simulation_data) THEN <<>>
    ELSE simulation_data[i].black_swan_events \o all_triggered(simulation_data, i + 1)

\* the sum of a field over the scenarios
RECURSIVE SumOf(_, _, _)
SumOf(simulation_data, field, i) ==
    IF i > Len(simulation_data) THEN Zero
    ELSE RAdd(simulation_data[i][field], SumOf(simulation_data, field, i + 1))

\* _analyze_black_swan_impact: Counter(all_events) and its totals
analyze_black_swan_impact(events) ==
    [most_frequent_events |->
         [id \in {events[i] : i \in DOMAIN events} |-> Count(id, events)],
     total_events_triggered |-> Len(events)]

\* MonteCarloResult: the success rate, the statistics of the final and of
\* the minimum net worths, and the analysis of the events
MonteCarloResult(simulation_data, settings) ==
    [success_rate |->
         Rat(Cardinality({i \in DOMAIN simulation_data : simulation_data[i].fire_success}),
             settings.num_simulations),
     total_simulations |-> settings.num_simulations,
     mean_final_net_worth |->
         RDiv(SumOf(simulation_data, "final_net_worth", 1), Dec(Len(simulation_data))),
     worst_case_final_net_worth |->
         LeastOf({simulation_data[i].final_net_worth : i \in DOMAIN simulation_data}),
     best_case_final_net_worth |->
         GreatestOf({simulation_data[i].final_net_worth : i \in DOMAIN simulation_data}),
     mean_minimum_net_worth |->
         RDiv(SumOf(simulation_data, "minimum_net_worth", 1), Dec(Len(simulation_data))),
     worst_case_minimum_net_worth |->
         LeastOf({simulation_data[i].minimum_net_worth : i \in DOMAIN simulation_data}),
     black_swan_impact_analysis |->
         IF settings.include_black_swan_events
         THEN <<analyze_black_swan_impact(all_triggered(simulation_data, 1))>>
         ELSE <<>>]

\* run_simulation: the generators seeded again, the scenarios simulated, the
\* result made of them
run_simulation(simulator, rs) ==
    simulate_runs(BaseScenario, simulator.settings, reseed(rs, simulator.seed), <<>>, 0)

\* the generators of a new process
InitialGenerators == {[py |-> 0, np |-> 0], [py |-> 11, np |-> 6]}

MonteCarloInit ==
    /\ NoEngine /\ NoStrategy /\ NoPlanner /\ NoSession /\ NoBlackSwan /\ NoAdvisor /\ NoBuffers
    /\ random_state \in InitialGenerators
    /\ simulators = [id \in SimulatorIds |-> <<>>]
    /\ mc_results = <<>>
    /\ in_flight = <<>>

\* MonteCarloSimulator(engine, settings, seed): the generators are seeded
\* when a seed is given
NewSimulator ==
    /\ \E id \in SimulatorIds, seed \in Seeds, settings \in SettingsChoices :
        /\ simulators[id] = <<>>
        /\ simulators' = [simulators EXCEPT ![id] = <<[seed |-> seed, settings |-> settings]>>]
        /\ random_state' = IF seed # <<>> THEN seed_generators(seed[1]) ELSE random_state
    /\ UNCHANGED <<mc_results, in_flight, engine_vars, strategy_vars, planner_vars, session_vars, black_swan_vars, advisor_vars, buffer_vars>>

\* simulator.run_simulation()
RunSimulation ==
    /\ Len(mc_results) < MaxRuns
    /\ \E id \in SimulatorIds :
        /\ simulators[id] # <<>>
        /\ \E run \in {run_simulation(simulators[id][1], random_state)} :
            /\ random_state' = run.rs
            /\ mc_results' = Append(mc_results,
                   [simulator |-> id,
                    seed |-> simulators[id][1].seed,
                    settings |-> simulators[id][1].settings,
                    result |-> MonteCarloResult(run.simulation_data,
                                                simulators[id][1].settings)])
    /\ UNCHANGED <<simulators, in_flight, engine_vars, strategy_vars, planner_vars, session_vars, black_swan_vars, advisor_vars, buffer_vars>>

MonteCarloNext == NewSimulator \/ RunSimulation

SpecMonteCarlo == MonteCarloInit /\ [][MonteCarloNext]_vars

\* C20: two run_simulation calls with the same seed and the same settings,
\* on the same simulator or on two simulators, return the same success rate,
\* the same net-worth statistics and the same count of triggers per event.
C20_SameSeedSameResult ==
    \A i, j \in DOMAIN mc_results :
        (/\ mc_results[i].seed # <<>>
         /\ mc_results[i].seed = mc_results[j].seed
         /\ mc_results[i].settings = mc_results[j].settings)
        => mc_results[i].result = mc_results[j].result

\* two runs with one seed on two simulators, with events triggered, after
\* the generators were left in another state by the first of them
C20_Witness ==
    \E i, j \in DOMAIN mc_results :
        /\ i < j
        /\ mc_results[i].simulator # mc_results[j].simulator
        /\ mc_results[i].seed # <<>>
        /\ mc_results[i].seed = mc_results[j].seed
        /\ mc_results[i].settings = mc_results[j].settings
        /\ mc_results[i].result.black_swan_impact_analysis # <<>>
        /\ mc_results[i].result.black_swan_impact_analysis[1].total_events_triggered > 0
        /\ random_state # seed_generators(mc_results[i].seed[1])

\* ------------------------------------------------------------------------
\* The scenarios of one run_simulation, their steps scheduled in any order
\* ------------------------------------------------------------------------

\* the settings of a run of up to MaxRuns scenarios
ScenarioSettings ==
    {SimulationSettings(n, b) : n \in 1 .. MaxRuns, b \in BOOLEAN}

\* a scenario before its first step: a copy of base_df
NewScenario == [stage |-> "new", df |-> BaseScenario, events |-> <<>>]

\* the simulator of the run
TheSimulator == simulators[1]

\* run_simulation is entered: the generators are seeded, and each of the
\* num_simulations scenarios waits for its steps
ScenariosInit ==
    /\ NoEngine /\ NoStrategy /\ NoPlanner /\ NoSession /\ NoBlackSwan /\ NoAdvisor /\ NoBuffers
    /\ \E seed \in Seeds \ {<<>>}, settings \in ScenarioSettings :
        /\ simulators = <<[seed |-> seed, settings |-> settings]>>
        /\ random_state = seed_generators(seed[1])
        /\ in_flight = [run_id \in 0 .. settings.num_simulations - 1 |-> NewScenario]
    /\ mc_results = <<>>

\* the step of a scenario: the generators and the scenario after it
ScenarioStep(run_id, stage, after) ==
    /\ random_state' = after.rs
    /\ in_flight' = [in_flight EXCEPT ![run_id] =
                        [stage |-> stage, df |-> after.df,
                         events |-> IF "events" \in DOMAIN after
                                    THEN after.events ELSE <<>>]]
    /\ UNCHANGED <<simulators, mc_results, engine_vars, strategy_vars, planner_vars, session_vars, black_swan_vars, advisor_vars, buffer_vars>>

\* _generate_random_scenario of a scenario: the income variation
VaryIncome ==
    \E run_id \in DOMAIN in_flight :
        /\ in_flight[run_id].stage = "new"
        /\ ScenarioStep(run_id, "income",
               income_variation(in_flight[run_id].df, random_state,
                                TheSimulator.settings, 1))

\* _generate_random_scenario of a scenario: the expense variation
VaryExpense ==
    \E run_id \in DOMAIN in_flight :
        /\ in_flight[run_id].stage = "income"
        /\ ScenarioStep(run_id, "expense",
               expense_variation(in_flight[run_id].df, random_state,
                                 TheSimulator.settings, 1))

\* _generate_random_scenario of a scenario: the black swan events
ApplyBlackSwanEvents ==
    \E run_id \in DOMAIN in_flight :
        /\ in_flight[run_id].stage = "expense"
        /\ ScenarioStep(run_id, "generated",
               with_black_swan_events(
                   [df |-> in_flight[run_id].df, rs |-> random_state],
                   TheSimulator.settings))

\* simulation_data of the scenarios, by run_id
collected(scenarios) ==
    [i \in 1 .. Cardinality(DOMAIN scenarios) |->
        simulation_record(scenarios[i - 1], calculate(scenarios[i - 1].df))]

\* the engine is run on each scenario and the result is made
Aggregate ==
    /\ mc_results = <<>>
    /\ \A run_id \in DOMAIN in_flight : in_flight[run_id].stage = "generated"
    /\ mc_results' = <<[seed |-> TheSimulator.seed,
                        settings |-> TheSimulator.settings,
                        result |-> MonteCarloResult(collected(in_flight),
                                                    TheSimulator.settings)]>>
    /\ UNCHANGED <<random_state, simulators, in_flight, engine_vars, strategy_vars, planner_vars, session_vars, black_swan_vars, advisor_vars, buffer_vars>>

ScenariosNext == VaryIncome \/ VaryExpense \/ ApplyBlackSwanEvents \/ Aggregate

SpecScenarios == ScenariosInit /\ [][ScenariosNext]_vars

\* what run_simulation returns when it runs the scenarios in index order
InOrderResult ==
    MonteCarloResult(run_simulation(TheSimulator, random_state).simulation_data,
                     TheSimulator.settings)

row_year(prof, asset_values, r) ==
    simulate_year(prof.portfolio, EngineStrategy, asset_values,
                  RSub(r.total_income, r.total_expense), r.total_expense)

\* a buffer of the months that are missing to a year
is_sustainable_by_missing_months(prof, r, year) ==
    RLe(RMul(r.total_expense, Rat(12 - prof.safety_buffer_months, 12)),
        year.ending_portfolio_value)

\* is_sustainable of calculate_single_year
is_sustainable(prof, r, year) ==
    RLe(RMul(r.total_expense, Rat(prof.safety_buffer_months, 12)),
        year.ending_portfolio_value)

\* all(state.is_sustainable for state in yearly_states), row by row
RECURSIVE all_sustainable(_, _, _, _)
RECURSIVE all_sustainable_after(_, _, _, _)
all_sustainable(prof, df, i, asset_values) ==
    IF i > Len(df) THEN TRUE
    ELSE all_sustainable_after(prof, df, i, row_year(prof, asset_values, df[i]))

all_sustainable_after(prof, df, i, year) ==
    /\ is_sustainable(prof, df[i], year)
    /\ all_sustainable(prof, df, i + 1, year.asset_values)

\* FIREEngine(EngineInput(user_profile, annual_financial_projection))
\* .calculate().is_fire_achievable
is_fire_achievable(prof, df) ==
    /\ Len(df) > 0
    /\ all_sustainable(prof, df, 1, reset_to_initial(prof))

\* the ages of the advisor's projections
AdvisorAges == CurrentAge .. CurrentAge + MaxYears

\* the profiles of the advisor's callers
AdvisorProfiles ==
    [current_age : {CurrentAge},
     expected_fire_age : CurrentAge + 1 .. CurrentAge + MaxYears,
     legal_retirement_age : {CurrentAge + MaxYears},
     life_expectancy : {CurrentAge + MaxYears},
     current_net_worth : NetWorths,
     safety_buffer_months : SafetyBufferMonths,
     portfolio : {CashOnlyPortfolio}]

\* an income or expense item of the caller
AdvisorItem(name, amount, start_age, end_age) ==
    [name |-> name, after_tax_amount_per_period |-> amount,
     start_age |-> start_age, end_age |-> end_age, annual_growth_rate |-> 0]

\* the work income, which ends at the expected FIRE age, alone or with a
\* pension from the legal retirement age on
AdvisorIncomeItems(prof) ==
    {<<AdvisorItem("Salary", amount, prof.current_age, prof.expected_fire_age)>>
        : amount \in {2, 6, 12}}
    \cup
    {<<AdvisorItem("Salary", amount, prof.current_age, prof.expected_fire_age),
       AdvisorItem("Pension", 6, prof.legal_retirement_age, prof.life_expectancy)>>
        : amount \in {2, 6, 12}}

AdvisorExpenseItems(prof) ==
    {<<AdvisorItem("Living", amount, prof.current_age, prof.life_expectancy)>>
        : amount \in {4, 6}}

\* the amount of an item at an age, grown since its start
item_amount(item, age) ==
    RMul(Dec(item.after_tax_amount_per_period),
         RPow(RAdd(Dec(1), Rat(item.annual_growth_rate, 100)), age - item.start_age))

\* the cell of an item at an age: its amount within its ages, else 0
item_cell(item, age) ==
    IF item.start_age <= age /\ age <= item.end_age
    THEN item_amount(item, age) ELSE Zero

\* the names of the items of a list
ItemNames(items) == {items[i].name : i \in DOMAIN items}

\* the item of a name
ItemNamed(items, name) == items[CHOOSE i \in DOMAIN items : items[i].name = name]

\* the detailed projection the planner makes of the items: a row per age, a
\* column per item
detailed_projection_of(items) ==
    [i \in 1 .. Cardinality(AdvisorAges) |->
        [age |-> CurrentAge + i - 1,
         columns |-> [name \in ItemNames(items) |->
                         item_cell(ItemNamed(items, name), CurrentAge + i - 1)]]]

\* the sum of some columns of a row
ColumnsTotal(columns, names) == RSumOver(columns, names)

\* _create_annual_summary_from_detailed_df: the income columns are those of
\* the income items, the expense columns all the others
create_annual_summary_from_detailed_df(income_items, detailed_df) ==
    [i \in DOMAIN detailed_df |->
        [age |-> detailed_df[i].age,
         total_income |->
            ColumnsTotal(detailed_df[i].columns,
                         DOMAIN detailed_df[i].columns \cap ItemNames(income_items)),
         total_expense |->
            ColumnsTotal(detailed_df[i].columns,
                         DOMAIN detailed_df[i].columns \ ItemNames(income_items))]]

\* EngineInput as the planner makes it for the advisor
EngineInput(prof, income_items, expense_items) ==
    [user_profile |-> prof,
     annual_financial_projection |->
         create_annual_summary_from_detailed_df(income_items,
             detailed_projection_of(income_items \o expense_items)),
     detailed_projection |-> detailed_projection_of(income_items \o expense_items),
     income_items |-> income_items]

EngineInputs ==
    UNION {{EngineInput(prof, income_items, expense_items) :
                income_items \in AdvisorIncomeItems(prof),
                expense_items \in AdvisorExpenseItems(prof)} :
           prof \in AdvisorProfiles}

\* The advisor holds the caller's objects: self.profile, self.projection_df,
\* self.detailed_projection_df and self.income_items are the objects of the
\* EngineInput it was made with. A local of a method is either one of these
\* objects (ref names the field) or an object of its own.
Ref(field) == [ref |-> field, value |-> <<>>]

New(value) == [ref |-> "", value |-> value]

\* the value of an object
Deref(self, obj) == IF obj.ref # "" THEN self[obj.ref] ELSE obj.value

\* a "copy" that is the object itself
copy_is_alias(self, obj) == obj

\* DataFrame.copy() and BaseModel.model_copy(): a new object of the same value
copy(self, obj) == New(Deref(self, obj))

\* a write to an object: the caller's object changes when the object is the
\* caller's
Assign(self, obj, value) ==
    [self |-> IF obj.ref # "" THEN [self EXCEPT ![obj.ref] = value] ELSE self,
     obj |-> IF obj.ref # "" THEN obj ELSE New(value)]

\* modified_profile.expected_fire_age = test_age
set_expected_fire_age(self, obj, age) ==
    Assign(self, obj, [Deref(self, obj) EXCEPT !.expected_fire_age = age])

\* the FIRE age set on self.profile itself
profile_for_age_in_place(self, age) ==
    set_expected_fire_age(self, Ref("user_profile"), age)

\* modified_profile = self.profile.model_copy(), with the FIRE age set
profile_for_age(self, age) ==
    set_expected_fire_age(self, copy(self, Ref("user_profile")), age)

\* an engine run of the advisor: what the engine was given
EngineRun(test_age, prof, df) ==
    [test_age |-> test_age, user_profile |-> prof, annual_financial_projection |-> df]

\* the loop of _find_earliest_retirement, from test_age downwards
RECURSIVE earliest_loop(_, _, _, _)
RECURSIVE earliest_probe(_, _, _, _)
earliest_loop(self, test_age, earliest, runs) ==
    IF test_age < self.user_profile.current_age
    THEN [self |-> self, earliest |-> earliest, runs |-> runs]
    ELSE earliest_probe(test_age, earliest, runs, profile_for_age(self, test_age))

\* one candidate age: the engine on the modified profile and the advisor's
\* annual projection
earliest_probe(test_age, earliest, runs, m) ==
    IF is_fire_achievable(Deref(m.self, m.obj), m.self.annual_financial_projection)
    THEN earliest_loop(m.self, test_age - 1, test_age,
             Append(runs, EngineRun(test_age, Deref(m.self, m.obj),
                                    m.self.annual_financial_projection)))
    ELSE [self |-> m.self, earliest |-> earliest,
          runs |-> Append(runs, EngineRun(test_age, Deref(m.self, m.obj),
                                          m.self.annual_financial_projection))]

\* the success rates a Monte Carlo run without a seed may give
SuccessRates == {Zero, Rat(1, 2), Dec(1)}

\* what a method of the advisor gives: the advisor after it, the
\* recommendation or None, and its engine runs
Found(self, rec, runs) == [self |-> self, rec |-> rec, runs |-> runs]

\* EarlyRetirementRecommendation, after the engine run at the optimal age
early_recommendation(current_expected_age, searched, optimal, rate) ==
    Found(optimal.self,
          <<[recommendation_type |-> "early_retirement",
             is_achievable |-> TRUE,
             optimal_fire_age |-> searched.earliest,
             years_saved |-> current_expected_age - searched.earliest,
             fire_calculation_result |->
                 is_fire_achievable(Deref(optimal.self, optimal.obj),
                                    optimal.self.annual_financial_projection),
             monte_carlo_success_rate |-> rate]>>,
          searched.runs)

\* the end of _find_earliest_retirement
earliest_found(current_expected_age, searched, rate) ==
    IF searched.earliest < current_expected_age
    THEN early_recommendation(current_expected_age, searched,
                              profile_for_age(searched.self, searched.earliest), rate)
    ELSE Found(searched.self, <<>>, searched.runs)

\* _find_earliest_retirement
find_earliest_retirement(self, rate) ==
    earliest_found(self.user_profile.expected_fire_age,
        earliest_loop(self, self.user_profile.expected_fire_age - 1,
                      self.user_profile.expected_fire_age, <<>>),
        rate)

\* the cell of the extended projection: the items that end at the current
\* FIRE age get their grown amount at the ages after it up to the target
extended_cell(work_items, df_row, name, old, target_fire_age) ==
    IF /\ name \in ItemNames(work_items)
       /\ ItemNamed(work_items, name).end_age < df_row.age
       /\ df_row.age <= target_fire_age
    THEN item_amount(ItemNamed(work_items, name), df_row.age)
    ELSE old

\* the rows of the extended projection
extended_rows(work_items, detailed_df, target_fire_age) ==
    [i \in DOMAIN detailed_df |->
        [detailed_df[i] EXCEPT !.columns =
            [name \in DOMAIN @ |->
                extended_cell(work_items, detailed_df[i], name, @[name],
                              target_fire_age)]]]

\* the items that end at the current FIRE age
work_income_items(self) ==
    SelectSeq(self.income_items,
              LAMBDA item : item.end_age = self.user_profile.expected_fire_age)

\* _extend_work_income_to_age: a copy of the detailed projection, written to
\* when the target is later than the current FIRE age
extend_work_income_to_age(self, extended_projection, target_fire_age) ==
    IF target_fire_age <= self.user_profile.expected_fire_age
       \/ work_income_items(self) = <<>>
    THEN [self |-> self, obj |-> extended_projection]
    ELSE Assign(self, extended_projection,
                extended_rows(work_income_items(self),
                              Deref(self, extended_projection), target_fire_age))

\* the engine of the delayed search on a candidate age: m is the modified
\* profile, x the extended detailed projection
delayed_achievable(m, x) ==
    is_fire_achievable(Deref(x.self, m.obj),
        create_annual_summary_from_detailed_df(x.self.income_items,
                                               Deref(x.self, x.obj)))

\* the modified profile, then the extended projection, of a candidate age
extended_for(m, age) ==
    extend_work_income_to_age(m.self, copy(m.self, Ref("detailed_projection")), age)

\* a loop that goes on after a sustainable age and keeps the last one
RECURSIVE delayed_loop_to_the_end(_, _, _)
delayed_loop_to_the_end(self, test_age, legal_retirement_age) ==
    IF test_age > legal_retirement_age
    THEN [self |-> self, required_age |-> <<>>]
    ELSE IF delayed_loop_to_the_end(self, test_age + 1, legal_retirement_age).required_age # <<>>
    THEN delayed_loop_to_the_end(self, test_age + 1, legal_retirement_age)
    ELSE IF delayed_achievable(profile_for_age(self, test_age),
                               extended_for(profile_for_age(self, test_age), test_age))
    THEN [self |-> self, required_age |-> <<test_age>>]
    ELSE [self |-> self, required_age |-> <<>>]

\* the loop of _find_required_delayed_retirement, from test_age upwards
RECURSIVE delayed_loop(_, _, _)
RECURSIVE delayed_probe(_, _, _, _)
delayed_loop(self, test_age, legal_retirement_age) ==
    IF test_age > legal_retirement_age
    THEN [self |-> self, required_age |-> <<>>]
    ELSE delayed_probe(test_age, legal_retirement_age,
                       profile_for_age(self, test_age),
                       extended_for(profile_for_age(self, test_age), test_age))

delayed_probe(test_age, legal_retirement_age, m, x) ==
    IF delayed_achievable(m, x)
    THEN [self |-> x.self, required_age |-> <<test_age>>]
    ELSE delayed_loop(x.self, test_age + 1, legal_retirement_age)

\* DelayedRetirementRecommendation for an age, after its engine run
delayed_recommendation(current_expected_age, age, achievable, m, x) ==
    Found(x.self,
          <<[recommendation_type |-> "delayed_retirement",
             is_achievable |-> achievable,
             required_fire_age |-> age,
             years_delayed |-> age - current_expected_age,
             fire_calculation_result |-> delayed_achievable(m, x)]>>,
          <<>>)

\* the recommendation for an age: the profile and the projection are made
\* again for it
delayed_for(current_expected_age, self, age, achievable) ==
    delayed_recommendation(current_expected_age, age, achievable,
        profile_for_age(self, age),
        extended_for(profile_for_age(self, age), age))

\* the end of _find_required_delayed_retirement: the required age, or the
\* legal retirement age as not feasible
delayed_found(current_expected_age, legal_retirement_age, searched) ==
    IF searched.required_age # <<>>
    THEN delayed_for(current_expected_age, searched.self, searched.required_age[1], TRUE)
    ELSE delayed_for(current_expected_age, searched.self, legal_retirement_age, FALSE)

\* _find_required_delayed_retirement
find_required_delayed_retirement(self) ==
    delayed_found(self.user_profile.expected_fire_age,
        self.user_profile.legal_retirement_age,
        delayed_loop(self, self.user_profile.expected_fire_age + 1,
                     self.user_profile.legal_retirement_age))

\* modified_df[column] *= factor
scaled_column(df, column, factor) ==
    [i \in DOMAIN df |-> [df[i] EXCEPT ![column] = RMul(@, factor)]]

\* modified_df = self.projection_df.copy(); modified_df[column] *= factor
scaled_projection(self, column, factor) ==
    Assign(self, copy(self, Ref("annual_financial_projection")),
           scaled_column(Deref(self, copy(self, Ref("annual_financial_projection"))),
                         column, factor))

\* the engine on the advisor's profile and a modified annual projection
modified_achievable(m) ==
    is_fire_achievable(m.self.user_profile, Deref(m.self, m.obj))

\* the binary search of _find_required_income_increase
RECURSIVE income_loop(_, _, _, _)
RECURSIVE income_probe(_, _, _, _, _)
income_loop(self, low, high, optimal_multiplier) ==
    IF ~RLt(Rat(1, 100), RSub(high, low))
    THEN [self |-> self, optimal |-> optimal_multiplier]
    ELSE income_probe(low, high, optimal_multiplier, RDiv(RAdd(low, high), Dec(2)),
             scaled_projection(self, "total_income", RDiv(RAdd(low, high), Dec(2))))

income_probe(low, high, optimal_multiplier, mid, m) ==
    IF modified_achievable(m)
    THEN income_loop(m.self, low, mid, <<mid>>)
    ELSE income_loop(m.self, mid, high, optimal_multiplier)

\* IncomeAdjustmentRecommendation, after the engine run on the final
\* projection
income_recommendation(optimal_multiplier, original_income, final) ==
    Found(final.self,
          <<[recommendation_type |-> "income_adjustment",
             is_achievable |-> TRUE,
             required_income_multiplier |-> optimal_multiplier,
             additional_income_needed |->
                 RMul(original_income, RSub(optimal_multiplier, Dec(1))),
             fire_calculation_result |-> modified_achievable(final)]>>,
          <<>>)

\* the end of _find_required_income_increase
income_found(searched) ==
    IF searched.optimal # <<>> /\ searched.optimal[1] # Zero
    THEN income_recommendation(searched.optimal[1],
             searched.self.annual_financial_projection[1].total_income,
             scaled_projection(searched.self, "total_income", searched.optimal[1]))
    ELSE Found(searched.self, <<>>, <<>>)

\* _find_required_income_increase
find_required_income_increase(self) ==
    income_found(income_loop(self, Dec(1), Dec(5), <<>>))

\* the binary search of _find_required_expense_reduction
RECURSIVE expense_loop(_, _, _, _)
RECURSIVE expense_probe(_, _, _, _, _)
expense_loop(self, low, high, optimal_reduction) ==
    IF ~RLt(Rat(1, 1000), RSub(high, low))
    THEN [self |-> self, optimal |-> optimal_reduction]
    ELSE expense_probe(low, high, optimal_reduction, RDiv(RAdd(low, high), Dec(2)),
             scaled_projection(self, "total_expense",
                               RSub(Dec(1), RDiv(RAdd(low, high), Dec(2)))))

expense_probe(low, high, optimal_reduction, mid, m) ==
    IF modified_achievable(m)
    THEN expense_loop(m.self, low, mid, <<mid>>)
    ELSE expense_loop(m.self, mid, high, optimal_reduction)

\* ExpenseReductionRecommendation, after the engine run on the final
\* projection
expense_recommendation(optimal_reduction, original_expense, final) ==
    Found(final.self,
          <<[recommendation_type |-> "expense_reduction",
             is_achievable |-> TRUE,
             required_expense_reduction_rate |-> optimal_reduction,
             annual_savings_needed |-> RMul(original_expense, optimal_reduction),
             fire_calculation_result |-> modified_achievable(final)]>>,
          <<>>)

\* the end of _find_required_expense_reduction
expense_found(searched) ==
    IF searched.optimal # <<>> /\ searched.optimal[1] # Zero
    THEN expense_recommendation(searched.optimal[1],
             searched.self.annual_financial_projection[1].total_expense,
             scaled_projection(searched.self, "total_expense",
                               RSub(Dec(1), searched.optimal[1])))
    ELSE Found(searched.self, <<>>, <<>>)

\* _find_required_expense_reduction
find_required_expense_reduction(self) ==
    expense_found(expense_loop(self, Zero, Rat(8, 10), <<>>))

\* the three searches of a plan that is not achievable, one after the other
then_expense(delayed_rec, income_rec, expense) ==
    Found(expense.self, delayed_rec \o income_rec \o expense.rec, <<>>)

then_income(delayed_rec, income) ==
    then_expense(delayed_rec, income.rec, find_required_expense_reduction(income.self))

then_delayed(delayed) ==
    then_income(delayed.rec, find_required_income_increase(delayed.self))

\* get_all_recommendations: the earliest retirement of an achievable plan,
\* else the delayed retirement, the income increase and the expense reduction
get_all_recommendations(self, rate) ==
    IF is_fire_achievable(self.user_profile, self.annual_financial_projection)
    THEN find_earliest_retirement(self, rate)
    ELSE then_delayed(find_required_delayed_retirement(self))

\* FIREAdvisor(engine_input)
AdvisorInit ==
    /\ NoEngine /\ NoStrategy /\ NoPlanner /\ NoSession /\ NoBlackSwan
    /\ NoMonteCarlo /\ NoBuffers
    /\ engine_input \in EngineInputs
    /\ advisor_call = <<>>

\* the first call of a method of a new advisor: the caller's objects after
\* it, and what it was called on and gave
AdvisorCall(method, found) ==
    /\ advisor_call = <<>>
    /\ engine_input' = found.self
    /\ advisor_call' = <<[method |-> method, before |-> engine_input,
                          recommendations |-> found.rec, runs |-> found.runs]>>
    /\ UNCHANGED <<engine_vars, strategy_vars, planner_vars, session_vars, black_swan_vars, monte_carlo_vars, buffer_vars>>

GetAllRecommendations ==
    \E rate \in SuccessRates :
        AdvisorCall("get_all_recommendations", get_all_recommendations(engine_input, rate))

FindEarliestRetirement ==
    \E rate \in SuccessRates :
        AdvisorCall("_find_earliest_retirement", find_earliest_retirement(engine_input, rate))

FindRequiredDelayedRetirement ==
    AdvisorCall("_find_required_delayed_retirement",
                find_required_delayed_retirement(engine_input))

FindRequiredIncomeIncrease ==
    AdvisorCall("_find_required_income_increase",
                find_required_income_increase(engine_input))

FindRequiredExpenseReduction ==
    AdvisorCall("_find_required_expense_reduction",
                find_required_expense_reduction(engine_input))

AdvisorNext ==
    \/ GetAllRecommendations
    \/ FindEarliestRetirement
    \/ FindRequiredDelayedRetirement
    \/ FindRequiredIncomeIncrease
    \/ FindRequiredExpenseReduction

SpecAdvisor == AdvisorInit /\ [][AdvisorNext]_vars

\* the advisor's call, and the calls of a method
TheCall == advisor_call[1]

AdvisorCalled(method) == advisor_call # <<>> /\ TheCall.method = method

\* the income of a row that does not come from the work income items
OtherIncome(input, i) ==
    ColumnsTotal(input.detailed_projection[i].columns,
        ItemNames(input.income_items) \ ItemNames(work_income_items(input)))

\* C22: when the advisor tests an earlier retirement age, the engine runs on
\* a projection where the income of the items that end at the original
\* expected FIRE age is 0 at every age after the tested age.
C22_EarlierAgeRunsOnTruncatedIncome ==
    AdvisorCalled("_find_earliest_retirement") =>
        \A k \in DOMAIN TheCall.runs :
            \A i \in DOMAIN TheCall.runs[k].annual_financial_projection :
                TheCall.runs[k].annual_financial_projection[i].age > TheCall.runs[k].test_age
                => TheCall.runs[k].annual_financial_projection[i].total_income
                       = OtherIncome(TheCall.before, i)

\* the base plan of the call is achievable
BaseAchievable ==
    is_fire_achievable(TheCall.before.user_profile,
                       TheCall.before.annual_financial_projection)

\* the plan with the work income extended to an age is sustainable
SustainableAt(input, age) ==
    is_fire_achievable([input.user_profile EXCEPT !.expected_fire_age = age],
        create_annual_summary_from_detailed_df(input.income_items,
            extended_rows(work_income_items(input), input.detailed_projection, age)))

\* the ages of the delayed search that are sustainable
SustainableAges(input) ==
    {age \in input.user_profile.expected_fire_age + 1 ..
             input.user_profile.legal_retirement_age : SustainableAt(input, age)}

Multipliers32 == {Rat(k, 32) : k \in 32 .. 160}

\* the plan with its income multiplied is sustainable
SustainableTimes(input, multiplier) ==
    is_fire_achievable(input.user_profile,
        scaled_column(input.annual_financial_projection, "total_income", multiplier))

\* C24: when some multiplier from 1.0 to 5.0 makes the plan sustainable, the
\* income search reports a multiplier m that makes it sustainable, and no
\* multiplier from 1.0 to m - 0.01 does.
C24_SmallestIncomeMultiplier ==
    (/\ AdvisorCalled("_find_required_income_increase")
     /\ \E multiplier \in Multipliers32 : SustainableTimes(TheCall.before, multiplier))
    => /\ Len(TheCall.recommendations) = 1
       /\ SustainableTimes(TheCall.before,
                           TheCall.recommendations[1].required_income_multiplier)
       /\ \A multiplier \in Multipliers32 :
              RLe(multiplier,
                  RSub(TheCall.recommendations[1].required_income_multiplier, Rat(1, 100)))
              => ~SustainableTimes(TheCall.before, multiplier)

\* C25: get_all_recommendations leaves the caller's engine input as it was:
\* the profile with its expected FIRE age, the annual projection, the
\* detailed projection and the income items.
C25_CallerInputUnchanged ==
    AdvisorCalled("get_all_recommendations") => engine_input = TheCall.before

\* get_all_recommendations ran the three searches of an unsustainable plan
C25_Witness ==
    /\ AdvisorCalled("get_all_recommendations")
    /\ Len(TheCall.recommendations) = 3
    /\ TheCall.recommendations[1].is_achievable

\* ------------------------------------------------------------------------
\* One plan calculated with several safety buffers
\* ------------------------------------------------------------------------

\* the safety_buffer_months of test_safety_buffer_configuration
BufferMonths == {0, 6, 12}

\* a row of an annual summary
SummaryRow(age, total_income, total_expense) ==
    [age |-> age, total_income |-> Dec(total_income), total_expense |-> Dec(total_expense)]

\* the rows of the engine's projections, and a row whose income and expense
\* are the same negative amount
BufferRows == Rows \cup {[total_income |-> 0 - 6, total_expense |-> 0 - 6]}

\* projections of up to MaxRows rows
BufferProjections ==
    UNION {{[i \in 1 .. n |-> SummaryRow(CurrentAge + i - 1, f[i].total_income,
                                         f[i].total_expense)] :
               f \in [1 .. n -> BufferRows]} : n \in 1 .. MaxRows}

\* the profile of a plan with a safety buffer
WithBuffer(prof, months) == [safety_buffer_months |-> months] @@ prof

BuffersInit ==
    /\ NoEngine /\ NoStrategy /\ NoPlanner /\ NoSession /\ NoBlackSwan
    /\ NoMonteCarlo /\ NoAdvisor
    /\ plan \in [user_profile : [current_net_worth : NetWorths,
                                 portfolio : {CashOnlyPortfolio, DefaultPortfolio,
                                              LossPortfolio}],
                 annual_financial_projection : BufferProjections]
    /\ achievable_by_buffer = <<>>

\* FIREEngine(EngineInput(profile with the buffer, projection)).calculate()
CalculateWithBuffer ==
    /\ \E months \in BufferMonths \ DOMAIN achievable_by_buffer :
        achievable_by_buffer' = achievable_by_buffer @@
            (months :> is_fire_achievable(WithBuffer(plan.user_profile, months),
                                          plan.annual_financial_projection))
    /\ UNCHANGED <<plan, engine_vars, strategy_vars, planner_vars, session_vars, black_swan_vars, monte_carlo_vars, advisor_vars>>

BuffersNext == CalculateWithBuffer

SpecBuffers == BuffersInit /\ [][BuffersNext]_vars

\* no row of the plan has a negative expense
NoNegativeExpense ==
    \A i \in DOMAIN plan.annual_financial_projection :
        RLe(Zero, plan.annual_financial_projection[i].total_expense)

\* a plan that is not achievable_by_buffer with a buffer is not achievable_by_buffer with a
\* larger one
MonotoneInBuffer ==
    \A b1, b2 \in DOMAIN achievable_by_buffer :
        (b1 < b2 /\ ~achievable_by_buffer[b1]) => ~achievable_by_buffer[b2]

C27_DepositsSumToIncome ==
    IncomeCall =>
        RSumOver(call[1].result, DOMAIN call[1].result) = call[1].amount

\* ------------------------------------------------------------------------
\* What a planner in stage 2 or 3 holds
\* ------------------------------------------------------------------------

\* C28: whenever the planner is in STAGE2_ADJUSTMENT or STAGE3_ANALYSIS it
\* holds a user profile, at least one income item, at least one expense item
\* and a base projection.
C28_LaterStagesHoldInputs ==
    data.current_stage \in {"STAGE2_ADJUSTMENT", "STAGE3_ANALYSIS"} =>
        /\ data.user_profile # <<>>
        /\ data.income_items # <<>>
        /\ data.expense_items # <<>>
        /\ data.projection_df # <<>>

\* ------------------------------------------------------------------------
\* A planner that imports configuration files it did not write
\* ------------------------------------------------------------------------

\* the override lists of the files: up to two overrides of the same cell
FileOverrides ==
    {Override(age, IncomeItem.id, value) :
        age \in OverrideAges, value \in {Dec(7), Dec(9)}}

FileOverrideLists ==
    {<<>>} \cup {<<o>> : o \in FileOverrides}
           \cup {<<o1, o2>> : o1 \in FileOverrides, o2 \in FileOverrides}

\* the version 1.0 configuration files that are imported
ConfigFiles ==
    {[version |-> "1.0", profile |-> prof,
      income_items |-> <<IncomeItem>>, expense_items |-> <<ExpenseItem>>,
      overrides |-> overrides,
      simulation_settings |-> [num_simulations |-> 1000]] :
        prof \in SessionProfiles, overrides \in FileOverrideLists}

\* import_config_from_file of a file written by anyone
ImportConfigFile == \E file \in ConfigFiles :
    Call("import_config_from_file", <<file>>, import_config_from_file(data, file))

ImportNext ==
    \/ ImportConfigFile
    \/ ProceedToStage2
    \/ ApplyOverride
    \/ RemoveOverride
    \/ ProceedToStage3
    \/ BackToStage2
    \/ BackToStage1
    \/ ResetToStage1

SpecImport == SessionInit /\ [][ImportNext]_vars

\* C29: the stored override list holds at most one override for each
\* (age, item_id) pair, after any sequence of apply_override, remove_override,
\* stage changes and config imports.
C29_OneOverridePerCell ==
    \A i \in DOMAIN data.overrides : \A j \in DOMAIN data.overrides :
        (/\ data.overrides[i].age = data.overrides[j].age
         /\ data.overrides[i].item_id = data.overrides[j].item_id) => i = j

\* ------------------------------------------------------------------------
\* A planner whose items are named by the user
\* ------------------------------------------------------------------------

ItemNameChoices == {"Salary", "Bonus"}

ItemAmounts == {2, 3}

\* the income items that are added: the id tells the position, the name and
\* the amount are the user's
NamedIncomeItems(id) ==
    {[IncomeItem EXCEPT !.id = id, !.name = name,
                        !.after_tax_amount_per_period = amount,
                        !.annual_growth_rate = 0] :
        name \in ItemNameChoices, amount \in ItemAmounts}

\* the expense items that are added: "Living", or named as an income item is
NamedExpenseItems == {ExpenseItem, [ExpenseItem EXCEPT !.name = "Salary"]}

NextIncomeId == IF data.income_items = <<>> THEN "income-1" ELSE "income-2"

AddNamedIncomeItem ==
    /\ Len(data.income_items) < 2
    /\ \E item \in NamedIncomeItems(NextIncomeId) :
           Call("add_income_item", <<item>>, add_income_item(data, item))

AddNamedExpenseItem ==
    /\ Len(data.expense_items) < 1
    /\ \E item \in NamedExpenseItems :
           Call("add_expense_item", <<item>>, add_expense_item(data, item))

ApplyNamedOverride ==
    \E age \in OverrideAges : \E item_id \in {"income-1", "income-2"} :
        \E value \in OverrideValues :
            Call("apply_override", <<age, item_id, value>>,
                 apply_override(data, age, item_id, value))

NamesNext ==
    \/ SetUserProfile
    \/ AddNamedIncomeItem
    \/ AddNamedExpenseItem
    \/ ProceedToStage2
    \/ ApplyNamedOverride
    \/ GetProjectionDataframe

SpecNames == SessionInit /\ [][NamesNext]_vars

\* the index of the last override of the cell in the list, 0 when there is none
LastOverrideOf(overrides, age, item_id) ==
    IF \E i \in DOMAIN overrides :
           overrides[i].age = age /\ overrides[i].item_id = item_id
    THEN CHOOSE i \in DOMAIN overrides :
             /\ overrides[i].age = age /\ overrides[i].item_id = item_id
             /\ \A j \in DOMAIN overrides :
                    (overrides[j].age = age /\ overrides[j].item_id = item_id)
                        => j <= i
    ELSE 0

\* what the item contributes at the age: its override's value, or else its
\* own amount
OwnAmount(d, item, age) ==
    IF LastOverrideOf(d.overrides, age, item.id) # 0
    THEN d.overrides[LastOverrideOf(d.overrides, age, item.id)].value
    ELSE generate_initial_projection(d.user_profile[1], item)[age]

RECURSIVE OwnAmounts(_, _, _, _)
OwnAmounts(d, items, age, i) ==
    IF i > Len(items) THEN Zero
    ELSE RAdd(OwnAmount(d, items[i], age), OwnAmounts(d, items, age, i + 1))

ProjectionAges(d) == d.user_profile[1].current_age .. d.user_profile[1].life_expectancy

\* C30: every income or expense item contributes its own per-age amounts
\* exactly once to total_income or total_expense respectively, and an override
\* changes only the cell of the item whose id it names, also when two items
\* have the same name: in the table that is read, the cell of every item is
\* its override's value or else its own amount, and the totals are the sums
\* of these over the income items and over the expense items.
C30_ItemsCountedOnce ==
    (Called({"get_projection_dataframe"}) /\ LastCall.value # <<>>) =>
        \A age \in ProjectionAges(data) :
            /\ \A i \in DOMAIN data.income_items :
                   LastCall.value[1][data.income_items[i].name][age] =
                       OwnAmount(data, data.income_items[i], age)
            /\ \A i \in DOMAIN data.expense_items :
                   LastCall.value[1][data.expense_items[i].name][age] =
                       OwnAmount(data, data.expense_items[i], age)
            /\ create_annual_summary_from_df(data, LastCall.value[1])[age].total_income =
                   OwnAmounts(data, data.income_items, age, 1)
            /\ create_annual_summary_from_df(data, LastCall.value[1])[age].total_expense =
                   OwnAmounts(data, data.expense_items, age, 1)

\* the names of the items are all different
DistinctNames(d) ==
    \A i \in DOMAIN (d.income_items \o d.expense_items) :
        \A j \in DOMAIN (d.income_items \o d.expense_items) :
            (d.income_items \o d.expense_items)[i].name =
                (d.income_items \o d.expense_items)[j].name => i = j

====
